---- MODULE Spec2Model ----
(***************************************************************************)
(* A model of the OData filter-expression composer (class atrribute of     *)
(* odata_query_path_composer.h), of the EDM metadata model (edm_model,     *)
(* edm_schema::find_container), of the query execution coordinator         *)
(* (odata_service_query) with the query builder it drives, and of the      *)
(* string utility split_string.  Texts are sequences of one-character      *)
(* strings, so that spelling, spacing and quoting are compared character by*)
(* character.  Each component has specifications of its own, in which the  *)
(* variables of the other components stay idle.                            *)
(***************************************************************************)
EXTENDS Integers, Sequences, FiniteSets, TLC

VARIABLES
    exp,        \* atrribute::_exp of every attribute object
    live,       \* the attribute objects that have been constructed
    origin,     \* the text each attribute object was constructed with
    refs,       \* the objects a reference returned in the current statement names
    hist,       \* the combinator calls made so far, each with its receiver, operands and texts
    fuel,       \* combinator calls the caller still makes
    m_schemata, \* edm_model::m_schemata
    found,      \* the last lookup on the model: its kind, name and result
    returned,   \* what the last add_schema or operator[] call on the model returned
    m_query_builder,  \* odata_service_query::m_query_builder: <<>> when null, else <<the builder's state>>
    m_query_executor, \* odata_service_query::m_query_executor: FALSE when null
    submitted,  \* the requests the executor has been handed, in order
    outcome,    \* the executor's eventual result for each request of submitted
    qhist,      \* the calls made on the coordinator so far
    qfuel,      \* calls the coordinator's caller still makes
    ret,        \* the output list handed to split_string
    called,     \* the last split_string call: its arguments and the list it found
    answer,     \* the last strip_string, is_relative_path or print_double call and its result
    seccall,    \* the last iniparser_getnsec or iniparser_getsecname call and its result
    file,       \* iniparser_load: the physical lines of the file named ininame
    lineno,     \* iniparser_load: lineno, the physical lines read so far
    line,       \* iniparser_load: line, the accumulator the lines are appended to
    section,    \* iniparser_load: section, the name of the section being read
    errs,       \* iniparser_load: errs
    dict,       \* iniparser_load: <<>> when dict is null, else <<the entries set so far>>
    loaded,     \* iniparser_load: "no" before the call, "reading" in the loop, "returned" after
    trace       \* iniparser_load: what each turn of the loop found and did

filterVars == <<exp, live, origin, refs, hist, fuel>>
edmVars == <<m_schemata, found, returned>>
queryVars == <<m_query_builder, m_query_executor, submitted, outcome, qhist, qfuel>>
utilVars == <<ret, called, answer>>
iniVars == <<seccall, file, lineno, line, section, errs, dict, loaded, trace>>
vars == <<exp, live, origin, refs, hist, fuel, m_schemata, found, returned,
          m_query_builder, m_query_executor, submitted, outcome, qhist, qfuel,
          ret, called, answer,
          seccall, file, lineno, line, section, errs, dict, loaded, trace>>

\* what the actions of one component leave alone
besideFilter == <<edmVars, queryVars, utilVars, iniVars>>
besideEdm == <<filterVars, queryVars, utilVars, iniVars>>
besideQuery == <<filterVars, edmVars, utilVars, iniVars>>
besideUtil == <<filterVars, edmVars, queryVars, iniVars>>
besideIni == <<filterVars, edmVars, queryVars, utilVars>>

(***************************************************************************)
(* Bounds.                                                                 *)
(***************************************************************************)
NObj == 3           \* attribute objects the caller may hold
MaxDepth == 1       \* combinator calls in a run of SpecFilter
MaxChain == 3       \* combinator calls in a run of SpecChain
MaxLoad == 4        \* schemas, containers and types the loader registers, all together
MaxCalls == 3       \* calls on the coordinator in a run of SpecQuery or SpecAbsent
MaxClauses == 3     \* mutator calls in a run of SpecClauses
MaxLen == 4         \* characters of a generated source string in a run of SpecSplit
MaxPrior == 2       \* elements the output list holds when split_string is called
MaxPathLen == 3     \* characters of a generated root or path in a run of SpecCodec
MaxNum == 20        \* numerator of a generated double in a run of SpecCodec
MaxPlaces == 3      \* binary places of a generated double in a run of SpecCodec
MaxPrecision == 3   \* precision asked of print_double in a run of SpecCodec
MaxSlots == 3       \* slots of a generated dictionary in a run of SpecSections
MaxLines == 3       \* physical lines of a generated file in a run of SpecLoad

Objs == 1..NObj

(***************************************************************************)
(* Text output: what operator<< of a string stream appends.                *)
(***************************************************************************)
Digit == <<"0","1","2","3","4","5","6","7","8","9">>

RECURSIVE NatText(_)
NatText(n) ==
    IF n < 10 THEN <<Digit[n + 1]>>
    ELSE NatText(n \div 10) \o <<Digit[(n % 10) + 1]>>

IntText(i) == IF i < 0 THEN <<"-">> \o NatText(-i) ELSE NatText(i)

IntV(i) == [t |-> "int", i |-> i, s |-> <<>>]
StrV(s) == [t |-> "str", i |-> 0, s |-> s]

\* ostr << exp for the template operand of the comparison operators
StreamOut(v) == IF v.t = "int" THEN IntText(v.i) ELSE v.s

(***************************************************************************)
(* The combinators of class atrribute, as functions of the held text e.    *)
(***************************************************************************)
\* operator&& without the space before its keyword
operator_and_unspaced(e, r) == e \o <<"a","n","d"," ">> \o r

operator_and(e, r) == e \o <<" ","a","n","d"," ">> \o r

operator_or(e, r) == e \o <<" ","o","r"," ">> \o r

\* operator! with its keyword after the operand
operator_not_suffix(e) == e \o <<" ","n","o","t">>

operator_not(e) == <<"n","o","t"," ">> \o e

operator_bar(e, r) == e \o <<",">> \o r

operator_eq(e, v) == e \o <<" ","e","q"," ">> \o StreamOut(v)

operator_ne(e, v) == e \o <<" ","n","e"," ">> \o StreamOut(v)

\* operator>= with the keyword of operator>
operator_ge_as_gt(e, v) == e \o <<" ","g","t"," ">> \o StreamOut(v)

operator_ge(e, v) == e \o <<" ","g","e"," ">> \o StreamOut(v)

operator_gt(e, v) == e \o <<" ","g","t"," ">> \o StreamOut(v)

operator_le(e, v) == e \o <<" ","l","e"," ">> \o StreamOut(v)

operator_lt(e, v) == e \o <<" ","l","t"," ">> \o StreamOut(v)

contains(e, s) ==
    <<"c","o","n","t","a","i","n","s">> \o <<"(">> \o e \o <<",","'">> \o s \o <<"'",")">>

concat(e, s) ==
    <<"c","o","n","c","a","t">> \o <<"(">> \o e \o <<",","'">> \o s \o <<"'",")">>

tolower(e) == <<"t","o","l","o","w","e","r">> \o <<"(">> \o e \o <<"'",")">>

toupper(e) == <<"t","o","u","p","p","e","r">> \o <<"(">> \o e \o <<"'",")">>

trim(e) == <<"t","r","i","m">> \o <<"(">> \o e \o <<"'",")">>

\* endswith without the opening quote of its argument
endswith_unquoted(e, s) ==
    <<"e","n","d","s","w","i","t","h">> \o <<"(">> \o e \o <<",">> \o s \o <<"'",")">>

endswith(e, s) ==
    <<"e","n","d","s","w","i","t","h">> \o <<"(">> \o e \o <<",","'">> \o s \o <<"'",")">>

startswith(e, s) ==
    <<"s","t","a","r","t","s","w","i","t","h">> \o <<"(">> \o e \o <<",","'">> \o s \o <<"'",")">>

substring1(e, index) ==
    <<"s","u","b","s","t","r","i","n","g">> \o <<"(">> \o e \o <<",","'">>
        \o IntText(index) \o <<"'",")">>

substring2(e, index, length) ==
    <<"s","u","b","s","t","r","i","n","g">> \o <<"(">> \o e \o <<",","'">>
        \o IntText(index) \o <<",","'">> \o IntText(length) \o <<"'",")">>

\* const string_t& evaluate() const
evaluate(o) == exp[o]

CmpOps == {"eq", "ne", "ge", "gt", "le", "lt"}
LogicOps == {"and", "or", "join"}
StrFns == {"contains", "concat", "endswith", "startswith"}
UnaryFns == {"tolower", "toupper", "trim"}

\* the text a comparison operator leaves in _exp
CmpText(op, e, v) ==
    CASE op = "eq" -> operator_eq(e, v)
      [] op = "ne" -> operator_ne(e, v)
      [] op = "ge" -> operator_ge(e, v)
      [] op = "gt" -> operator_gt(e, v)
      [] op = "le" -> operator_le(e, v)
      [] op = "lt" -> operator_lt(e, v)

LogicText(op, e, r) ==
    CASE op = "and" -> operator_and(e, r)
      [] op = "or" -> operator_or(e, r)
      [] op = "join" -> operator_bar(e, r)

StrFnText(fn, e, s) ==
    CASE fn = "contains" -> contains(e, s)
      [] fn = "concat" -> concat(e, s)
      [] fn = "endswith" -> endswith(e, s)
      [] fn = "startswith" -> startswith(e, s)

UnaryText(fn, e) ==
    CASE fn = "tolower" -> tolower(e)
      [] fn = "toupper" -> toupper(e)
      [] fn = "trim" -> trim(e)

(***************************************************************************)
(* The attribute objects.  A combinator writes its receiver's _exp and     *)
(* returns *this, a reference to the receiver.                             *)
(***************************************************************************)
NoCall ==
    [op |-> "none", recv |-> 0, before |-> <<>>, val |-> IntV(0), str |-> <<>>,
     rhs |-> 0, i |-> 0, n |-> 0, start |-> FALSE, after |-> <<>>]

\* the last combinator call made
last == IF hist = <<>> THEN NoCall ELSE hist[Len(hist)]

\* one text buffer shared by an attribute and its copies
Assign_shared(o, t) == [x \in Objs |-> IF origin[x] = origin[o] THEN t ELSE exp[x]]

\* _exp = ostr.str(); return *this;
Assign(o, t) == [exp EXCEPT ![o] = t]

\* the part of a combinator call every combinator shares
Call(o, t, rec) ==
    /\ fuel > 0
    /\ o \in live
    /\ exp' = Assign(o, t)
    /\ hist' = Append(hist, [rec EXCEPT !.recv = o, !.before = exp[o], !.after = t,
                                         !.start = (o \notin refs)])
    /\ refs' = refs \cup {o}
    /\ fuel' = fuel - 1
    /\ UNCHANGED <<live, origin, besideFilter>>

\* operator==, !=, >=, >, <=, < with the operand v
Compare(o, op, v) ==
    Call(o, CmpText(op, exp[o], v), [NoCall EXCEPT !.op = op, !.val = v])

\* operator&&, operator||, operator| with the attribute r on the right
Combine(o, op, r) ==
    /\ r \in live
    /\ Call(o, LogicText(op, exp[o], evaluate(r)),
            [NoCall EXCEPT !.op = op, !.rhs = r, !.str = evaluate(r)])

\* operator!
Negate(o) == Call(o, operator_not(exp[o]), [NoCall EXCEPT !.op = "not"])

\* contains, concat, endswith, startswith with the argument s
StringFunction(o, fn, s) ==
    Call(o, StrFnText(fn, exp[o], s), [NoCall EXCEPT !.op = fn, !.str = s])

\* tolower, toupper, trim
UnaryFunction(o, fn) == Call(o, UnaryText(fn, exp[o]), [NoCall EXCEPT !.op = fn])

\* substring(int index)
Substring1(o, index) ==
    Call(o, substring1(exp[o], index), [NoCall EXCEPT !.op = "substring1", !.i = index])

\* substring(int index, int length)
Substring2(o, index, length) ==
    Call(o, substring2(exp[o], index, length),
         [NoCall EXCEPT !.op = "substring2", !.i = index, !.n = length])

\* atrribute c(o): the implicit copy constructor copies _exp; the new object c takes
\* the first free slot
Copy(o, c) ==
    /\ fuel > 0
    /\ o \in live
    /\ c \notin live
    /\ \A x \in Objs \ live : c <= x
    /\ live' = live \cup {c}
    /\ exp' = [exp EXCEPT ![c] = exp[o]]
    /\ origin' = [origin EXCEPT ![c] = exp[o]]
    /\ fuel' = fuel - 1
    /\ UNCHANGED <<refs, hist, besideFilter>>

\* the statement ends: the references its combinators returned are dropped
EndStatement ==
    /\ refs # {}
    /\ refs' = {}
    /\ UNCHANGED <<exp, live, origin, hist, fuel, besideFilter>>

(***************************************************************************)
(* The texts and operands the callers of the two filter specifications     *)
(* use.                                                                    *)
(***************************************************************************)
HeldTexts == {<<"a">>, <<"N","a","m","e">>, <<>>}
CmpOperands == {IntV(5), IntV(-12), IntV(100), StrV(<<"x">>)}
StrArgs == {<<"x">>, <<>>, <<"a","b">>}
IntArgs == {0, 5, -12}

NoSchemata == <<>>

\* no lookup made yet; a lookup's result names the owning schema (its index in
\* m_schemata) and the local name of what was found, and is NullPtr when s = 0
NoLookup == [kind |-> "none", name |-> <<>>, s |-> 0, n |-> <<>>]

\* no add_schema or operator[] call made yet; such a call's result names the
\* schema by its index in m_schemata (0: the null pointer)
NoReturn == [op |-> "none", name |-> <<>>, alias |-> <<>>, s |-> 0]

\* no utility call made yet, the output list empty
NoSplit == [source |-> <<>>, delim |-> <<>>, before |-> <<>>, made |-> FALSE]

\* a double is sign * num / 2^places, so that the value held is exact
PlusZero == [neg |-> FALSE, num |-> 0, places |-> 0]

NoAnswer ==
    [fn |-> "none", s |-> <<>>, root |-> <<>>, path |-> <<>>, db |-> PlusZero,
     precision |-> 0, ties |-> "even", out |-> <<>>, rel |-> FALSE]

\* no accessor of the ini dictionary has been called
NoSecCall == [fn |-> "none", d |-> <<>>, n |-> 0, nsec |-> 0, name |-> <<>>, reads |-> {}]

\* no ini file is being loaded
IniIdle ==
    /\ seccall = NoSecCall
    /\ file = <<>>
    /\ lineno = 0
    /\ line = <<>>
    /\ section = <<>>
    /\ errs = 0
    /\ dict = <<>>
    /\ loaded = "no"
    /\ trace = <<>>

UtilIdle ==
    /\ ret = <<>>
    /\ called = NoSplit
    /\ answer = NoAnswer

\* no coordinator has been constructed
QueryIdle ==
    /\ m_query_builder = <<>>
    /\ m_query_executor = FALSE
    /\ submitted = <<>>
    /\ outcome = <<>>
    /\ qhist = <<>>
    /\ qfuel = 0

\* a model as its constructor leaves it, nothing asked of it yet
EdmIdle ==
    /\ m_schemata = NoSchemata
    /\ found = NoLookup
    /\ returned = NoReturn

\* two attributes built from any of the held texts; one combinator call at a time
InitFilter ==
    /\ live = {1, 2}
    /\ exp \in [Objs -> HeldTexts]
    /\ \A o \in Objs \ {1, 2} : exp[o] = <<>>
    /\ origin = exp
    /\ refs = {}
    /\ hist = <<>>
    /\ fuel = MaxDepth
    /\ EdmIdle
    /\ QueryIdle
    /\ UtilIdle
    /\ IniIdle

NextFilter ==
    \/ \E o \in Objs, op \in CmpOps, v \in CmpOperands : Compare(o, op, v)
    \/ \E o \in Objs, op \in LogicOps, r \in Objs : Combine(o, op, r)
    \/ \E o \in Objs : Negate(o)
    \/ \E o \in Objs, fn \in StrFns, s \in StrArgs : StringFunction(o, fn, s)
    \/ \E o \in Objs, fn \in UnaryFns : UnaryFunction(o, fn)
    \/ \E o \in Objs, i \in IntArgs : Substring1(o, i)
    \/ \E o \in Objs, i \in IntArgs, n \in IntArgs : Substring2(o, i, n)

SpecFilter == InitFilter /\ [][NextFilter]_vars

\* the attributes a("a") and b("b"), combined in chains of calls
InitChain ==
    /\ live = {1, 2}
    /\ exp = [o \in Objs |-> IF o = 1 THEN <<"a">> ELSE IF o = 2 THEN <<"b">> ELSE <<>>]
    /\ origin = exp
    /\ refs = {}
    /\ hist = <<>>
    /\ fuel = MaxChain
    /\ EdmIdle
    /\ QueryIdle
    /\ UtilIdle
    /\ IniIdle

NextChain ==
    \/ \E o \in Objs : Compare(o, "eq", IntV(5))
    \/ \E o \in Objs, op \in {"and", "or"}, r \in Objs : Combine(o, op, r)
    \/ \E o \in Objs : Negate(o)
    \/ \E o \in Objs : StringFunction(o, "startswith", <<"x">>)
    \/ \E o \in Objs, c \in Objs : Copy(o, c)
    \/ EndStatement

SpecChain == InitChain /\ [][NextChain]_vars

(***************************************************************************)
(* The metadata model: edm_model owns the schemas in add_schema order.  A  *)
(* schema owns its entity containers (listed in the order its container    *)
(* table iterates them) and its types, one table per kind.                 *)
(***************************************************************************)
TypeKinds == {"entity", "complex", "enum", "operation"}

NullPtr == [s |-> 0, n |-> <<>>]

Dot == <<".">>

\* a schema as the edm_schema constructor leaves it
NewSchema(name, alias) ==
    [name |-> name, alias |-> alias, containers |-> <<>>, types |-> {}]

\* the loop over m_entity_containers for an empty name, from position i on: the
\* first container whose is_default_container() holds, as a sequence of at most one
RECURSIVE FirstDefault(_, _)
FirstDefault(cs, i) ==
    IF i > Len(cs) THEN <<>>
    ELSE IF cs[i].is_default THEN <<cs[i]>>
    ELSE FirstDefault(cs, i + 1)

\* the loop for a name that is not empty: the first container whose get_name() is it
RECURSIVE FirstNamed(_, _, _)
FirstNamed(cs, i, name) ==
    IF i > Len(cs) THEN <<>>
    ELSE IF cs[i].name = name THEN <<cs[i]>>
    ELSE FirstNamed(cs, i + 1, name)

\* find_container whose loop for the empty name does not test is_default_container()
schema_find_container_any(sc, name) ==
    IF name = <<>> THEN SubSeq(sc.containers, 1, IF sc.containers = <<>> THEN 0 ELSE 1)
    ELSE FirstNamed(sc.containers, 1, name)

\* edm_schema::find_container: the container found (none: nullptr)
schema_find_container(sc, name) ==
    IF name = <<>> THEN FirstDefault(sc.containers, 1)
    ELSE FirstNamed(sc.containers, 1, name)

\* edm_schema::find_entity_type and its three siblings: the local name itself, or
\* the local name qualified by the schema's name or by its alias
schema_find_type(sc, kind, name) ==
    LET hits == {t \in sc.types :
                    /\ t.kind = kind
                    /\ \/ name = t.name
                       \/ name = sc.name \o Dot \o t.name
                       \/ sc.alias # <<>> /\ name = sc.alias \o Dot \o t.name}
    IN  IF hits = {} THEN <<>> ELSE <<CHOOSE t \in hits : TRUE>>

\* the loops of edm_model::find_*: schemas from cbegin() on, the first non-null
\* result returned, nullptr after the last
RECURSIVE ScanTypes(_, _, _)
ScanTypes(i, kind, name) ==
    IF i > Len(m_schemata) THEN NullPtr
    ELSE LET r == schema_find_type(m_schemata[i], kind, name)
         IN  IF r # <<>> THEN [s |-> i, n |-> r[1].name]
             ELSE ScanTypes(i + 1, kind, name)

find_entity_type(name) == ScanTypes(1, "entity", name)

find_complex_type(name) == ScanTypes(1, "complex", name)

find_enum_type(name) == ScanTypes(1, "enum", name)

find_operation_type(name) == ScanTypes(1, "operation", name)

RECURSIVE ScanContainers(_, _)
ScanContainers(i, name) ==
    IF i > Len(m_schemata) THEN NullPtr
    ELSE LET r == schema_find_container(m_schemata[i], name)
         IN  IF r # <<>> THEN [s |-> i, n |-> r[1].name]
             ELSE ScanContainers(i + 1, name)

\* a scan that keeps the last schema's match instead of returning at the first
RECURSIVE ScanContainersLast(_, _, _)
ScanContainersLast(i, name, acc) ==
    IF i > Len(m_schemata) THEN acc
    ELSE LET r == schema_find_container(m_schemata[i], name)
         IN  ScanContainersLast(i + 1, name,
                                IF r # <<>> THEN [s |-> i, n |-> r[1].name] ELSE acc)

find_container_last(name) == ScanContainersLast(1, name, NullPtr)

find_container(name) == ScanContainers(1, name)

\* the schemas, containers and types registered so far
Loaded(schemata) ==
    LET RECURSIVE Sum(_)
        Sum(i) == IF i = 0 THEN 0
                  ELSE 1 + Len(schemata[i].containers) + Cardinality(schemata[i].types)
                           + Sum(i - 1)
    IN  Sum(Len(schemata))

\* seq with x put at position p
InsertAt(seq, p, x) == SubSeq(seq, 1, p - 1) \o <<x>> \o SubSeq(seq, p, Len(seq))

\* edm_model::operator[]: the loop over m_schemata from position i on, the
\* first schema whose get_name() equals name (0: nullptr)
RECURSIVE operator_index_from(_, _, _)
operator_index_from(schemata, i, name) ==
    IF i > Len(schemata) THEN 0
    ELSE IF schemata[i].name = name THEN i
    ELSE operator_index_from(schemata, i + 1, name)

operator_index(name) == operator_index_from(m_schemata, 1, name)

\* an add_schema that hands back the schema already registered under the name
add_schema_merging(name, alias) ==
    /\ Loaded(m_schemata) < MaxLoad
    /\ m_schemata' = IF operator_index(name) = 0
                     THEN Append(m_schemata, NewSchema(name, alias))
                     ELSE m_schemata
    /\ returned' = [op |-> "add_schema", name |-> name, alias |-> alias,
                    s |-> IF operator_index(name) = 0 THEN Len(m_schemata) + 1
                          ELSE operator_index(name)]
    /\ found' = NoLookup
    /\ UNCHANGED besideEdm

\* edm_model::add_schema
add_schema(name, alias) ==
    /\ Loaded(m_schemata) < MaxLoad
    /\ m_schemata' = Append(m_schemata, NewSchema(name, alias))
    /\ returned' = [op |-> "add_schema", name |-> name, alias |-> alias,
                    s |-> Len(m_schemata) + 1]
    /\ found' = NoLookup
    /\ UNCHANGED besideEdm

\* the loader registers a container in schema i; the container table iterates in
\* an order of its own, so the new container may come anywhere in it
AddContainer(i, name, is_default, p) ==
    /\ i \in 1..Len(m_schemata)
    /\ Loaded(m_schemata) < MaxLoad
    /\ \A k \in 1..Len(m_schemata[i].containers) : m_schemata[i].containers[k].name # name
    /\ p \in 1..(Len(m_schemata[i].containers) + 1)
    /\ m_schemata' =
           [m_schemata EXCEPT ![i].containers =
               InsertAt(@, p, [name |-> name, is_default |-> is_default])]
    /\ found' = NoLookup
    /\ UNCHANGED <<returned, besideEdm>>

\* the loader registers a type of the given kind in schema i
AddType(i, kind, name) ==
    /\ i \in 1..Len(m_schemata)
    /\ Loaded(m_schemata) < MaxLoad
    /\ [kind |-> kind, name |-> name] \notin m_schemata[i].types
    /\ m_schemata' =
           [m_schemata EXCEPT ![i].types = @ \cup {[kind |-> kind, name |-> name]}]
    /\ found' = NoLookup
    /\ UNCHANGED <<returned, besideEdm>>

\* a lookup on the model: what was asked and what came back
Lookup(kind, name, r) ==
    /\ found' = [kind |-> kind, name |-> name, s |-> r.s, n |-> r.n]
    /\ UNCHANGED <<m_schemata, returned, besideEdm>>

FindContainer(name) == Lookup("container", name, find_container(name))

FindEntityType(name) == Lookup("entity", name, find_entity_type(name))

FindComplexType(name) == Lookup("complex", name, find_complex_type(name))

FindEnumType(name) == Lookup("enum", name, find_enum_type(name))

FindOperationType(name) == Lookup("operation", name, find_operation_type(name))

\* the schemas, names and lookups of the metadata specification
SchemaArgs == {<<<<"s">>, <<"a">>>>, <<<<"t">>, <<>>>>}
ContainerNames == {<<"c">>, <<"d">>}
TypeNames == {<<"c">>}
ContainerQueries == {<<>>, <<"c">>, <<"d">>, <<"s",".","c">>, <<"a",".","c">>}
TypeQueries == {<<"c">>, <<"s",".","c">>}

\* no attribute object is held
FilterIdle ==
    /\ live = {}
    /\ exp = [o \in Objs |-> <<>>]
    /\ origin = exp
    /\ refs = {}
    /\ hist = <<>>
    /\ fuel = 0

InitEdm ==
    /\ EdmIdle
    /\ FilterIdle
    /\ QueryIdle
    /\ UtilIdle
    /\ IniIdle

NextEdm ==
    \/ \E a \in SchemaArgs : add_schema(a[1], a[2])
    \/ \E i \in 1..MaxLoad, name \in ContainerNames, d \in BOOLEAN, p \in 1..MaxLoad :
           AddContainer(i, name, d, p)
    \/ \E i \in 1..MaxLoad, kind \in TypeKinds, name \in TypeNames : AddType(i, kind, name)
    \/ \E name \in ContainerQueries : FindContainer(name)
    \/ \E name \in TypeQueries : FindEntityType(name)
    \/ \E name \in TypeQueries : FindComplexType(name)
    \/ \E name \in TypeQueries : FindEnumType(name)
    \/ \E name \in TypeQueries : FindOperationType(name)

SpecEdm == InitEdm /\ [][NextEdm]_vars

\* a call of operator[]: what was asked and what came back
Index(name) ==
    /\ returned' = [op |-> "index", name |-> name, alias |-> <<>>,
                    s |-> operator_index(name)]
    /\ UNCHANGED <<m_schemata, found, besideEdm>>

\* a caller that registers schemas, some under a name already taken, and asks
\* for schemas by name
RepeatedSchemaArgs == SchemaArgs \cup {<<<<"s">>, <<"b">>>>}
IndexNames == {<<"s">>, <<"t">>, <<"u">>}

NextSchemas ==
    \/ \E a \in RepeatedSchemaArgs : add_schema(a[1], a[2])
    \/ \E name \in IndexNames : Index(name)

SpecSchemas == InitEdm /\ [][NextSchemas]_vars

(***************************************************************************)
(* The query builder: the QueryState it accumulates and the wire string it *)
(* renders, root[/key-segment]?clause1&clause2...                          *)
(***************************************************************************)
\* a builder as its constructor leaves it: the root and no clause
NewBuilder(root) ==
    [root |-> root, key |-> <<>>, filter |-> <<>>, select |-> <<>>,
     expand |-> <<>>, orderby |-> <<>>, top |-> <<>>, skip |-> <<>>]

\* the single-valued clauses hold <<>> or <<value>>, select and expand hold
\* every value passed, in call order
builder_top(b, count) == [b EXCEPT !.top = <<count>>]

builder_key(b, key_clause) == [b EXCEPT !.key = <<key_clause>>]

builder_skip(b, count) == [b EXCEPT !.skip = <<count>>]

builder_filter(b, filter_clause) == [b EXCEPT !.filter = <<filter_clause>>]

\* a select that keeps the latest value only
builder_select_overwriting(b, select_clause) == [b EXCEPT !.select = <<select_clause>>]

builder_select(b, select_clause) == [b EXCEPT !.select = Append(@, select_clause)]

builder_expand(b, expand_clause) == [b EXCEPT !.expand = Append(@, expand_clause)]

builder_orderby(b, orderby_clause) == [b EXCEPT !.orderby = <<orderby_clause>>]

\* the texts of list from position i on, sep between them
RECURSIVE JoinFrom(_, _, _)
JoinFrom(list, sep, i) ==
    IF i > Len(list) THEN <<>>
    ELSE IF i = Len(list) THEN list[i]
    ELSE list[i] \o sep \o JoinFrom(list, sep, i + 1)

Join(list, sep) == JoinFrom(list, sep, 1)

Amp == <<"&">>
Comma == <<",">>
Slash == <<"/">>
QuestionMark == <<"?">>
FilterOption == <<"$","f","i","l","t","e","r","=">>
SelectOption == <<"$","s","e","l","e","c","t","=">>
ExpandOption == <<"$","e","x","p","a","n","d","=">>
OrderbyOption == <<"$","o","r","d","e","r","b","y","=">>
TopOption == <<"$","t","o","p","=">>
SkipOption == <<"$","s","k","i","p","=">>

\* one query option, as a list of no or one text
Clause(option, value) == IF value = <<>> THEN <<>> ELSE <<option \o value>>

\* the query options of b that are present, in rendering order
Clauses(b) ==
    Clause(FilterOption, Join(b.filter, <<>>))
      \o Clause(SelectOption, Join(b.select, Comma))
      \o Clause(ExpandOption, Join(b.expand, Comma))
      \o Clause(OrderbyOption, Join(b.orderby, <<>>))
      \o Clause(TopOption, IF b.top = <<>> THEN <<>> ELSE IntText(b.top[1]))
      \o Clause(SkipOption, IF b.skip = <<>> THEN <<>> ELSE IntText(b.skip[1]))

\* a rendering that writes the options in the order top, skip first
ClausesTopFirst(b) ==
    Clause(TopOption, IF b.top = <<>> THEN <<>> ELSE IntText(b.top[1]))
      \o Clause(SkipOption, IF b.skip = <<>> THEN <<>> ELSE IntText(b.skip[1]))
      \o Clause(FilterOption, Join(b.filter, <<>>))
      \o Clause(SelectOption, Join(b.select, Comma))
      \o Clause(ExpandOption, Join(b.expand, Comma))
      \o Clause(OrderbyOption, Join(b.orderby, <<>>))

builder_get_query_expression_top_first(b) ==
    b.root
      \o (IF b.key = <<>> THEN <<>> ELSE Slash \o b.key[1])
      \o (IF ClausesTopFirst(b) = <<>> THEN <<>>
          ELSE QuestionMark \o Join(ClausesTopFirst(b), Amp))

\* Builder::get_query_expression
builder_get_query_expression(b) ==
    b.root
      \o (IF b.key = <<>> THEN <<>> ELSE Slash \o b.key[1])
      \o (IF Clauses(b) = <<>> THEN <<>> ELSE QuestionMark \o Join(Clauses(b), Amp))

(***************************************************************************)
(* The query execution coordinator, odata_service_query<Executor, Builder>.*)
(* A request handed to the executor is answered later; the task a call     *)
(* returns is named by the request it stands for (0: a task made from the  *)
(* default result).                                                        *)
(***************************************************************************)
Root == <<"P","e","o","p","l","e">>

\* the shared_ptr the coordinator is owned by
This == "this"

NoRequest == <<>>

\* Executor::return_type(), the value task_from_result is given
DefaultResult == "default"

Failures == {"transport_failure", "decode_failure"}

NoQCall ==
    [op |-> "none", str |-> <<>>, count |-> 0, params |-> <<>>, is_function |-> FALSE,
     builder |-> <<>>, executor |-> FALSE, after |-> <<>>, expr |-> <<>>,
     handle |-> "none", req |-> 0, rendered |-> FALSE, submits |-> 0, token |-> <<>>]

\* both collaborators are there
Configured == m_query_executor /\ m_query_builder # <<>>

\* an execute_query that asks for the query root, whatever the clauses
execute_query_root_only ==
    IF Configured
    THEN <<[kind |-> "query", text |-> m_query_builder[1].root,
            params |-> <<>>, is_function |-> FALSE]>>
    ELSE NoRequest

\* odata_service_query::execute_query: the requests it hands to the executor
execute_query ==
    IF Configured
    THEN <<[kind |-> "query",
            text |-> builder_get_query_expression(m_query_builder[1]),
            params |-> <<>>, is_function |-> FALSE]>>
    ELSE NoRequest

\* a paged query that resolves the token against the builder's expression
execute_paged_query_resolved(next_link_url) ==
    IF Configured
    THEN <<[kind |-> "paged",
            text |-> builder_get_query_expression(m_query_builder[1])
                         \o QuestionMark \o next_link_url,
            params |-> <<>>, is_function |-> FALSE]>>
    ELSE NoRequest

\* odata_service_query::execute_paged_query
execute_paged_query(next_link_url) ==
    IF Configured
    THEN <<[kind |-> "paged", text |-> next_link_url,
            params |-> <<>>, is_function |-> FALSE]>>
    ELSE NoRequest

\* an operation query that always asks for a function
execute_operation_query_as_function(parameters, is_function) ==
    IF Configured
    THEN <<[kind |-> "operation",
            text |-> builder_get_query_expression(m_query_builder[1]),
            params |-> parameters, is_function |-> TRUE]>>
    ELSE NoRequest

\* odata_service_query::execute_operation_query
execute_operation_query(parameters, is_function) ==
    IF Configured
    THEN <<[kind |-> "operation",
            text |-> builder_get_query_expression(m_query_builder[1]),
            params |-> parameters, is_function |-> is_function]>>
    ELSE NoRequest

\* odata_service_query::get_query_expression
get_query_expression ==
    IF m_query_builder # <<>>
    THEN builder_get_query_expression(m_query_builder[1])
    ELSE <<>>

\* a result channel that turns a failure into the default result
task_result_defaulting(req) ==
    IF req = 0 \/ outcome[req] \in Failures THEN DefaultResult ELSE outcome[req]

\* the result of the task a call returned: the executor's own task for the
\* request, or the task made from the default result
task_result(req) == IF req = 0 THEN DefaultResult ELSE outcome[req]

\* a call on the coordinator, with what it found, left and returned
QCall(rec, builder) ==
    /\ qfuel > 0
    /\ qfuel' = qfuel - 1
    /\ m_query_builder' = builder
    /\ qhist' = Append(qhist, [rec EXCEPT !.builder = m_query_builder,
                                          !.executor = m_query_executor,
                                          !.after = builder])
    /\ UNCHANGED <<m_query_executor, besideQuery>>

\* an execute call that leaves a fresh builder behind
Execute_consuming(rec, requests) ==
    /\ submitted' = submitted \o requests
    /\ outcome' = outcome \o [i \in 1..Len(requests) |-> "pending"]
    /\ QCall([rec EXCEPT !.submits = Len(requests),
                         !.req = IF requests = <<>> THEN 0 ELSE Len(submitted) + 1],
             IF m_query_builder = <<>> THEN m_query_builder
             ELSE <<NewBuilder(m_query_builder[1].root)>>)

\* one of the three execute calls: the requests go to the executor, which owes
\* an answer to each; the call returns the task of its request
Execute(rec, requests) ==
    /\ submitted' = submitted \o requests
    /\ outcome' = outcome \o [i \in 1..Len(requests) |-> "pending"]
    /\ QCall([rec EXCEPT !.submits = Len(requests),
                         !.req = IF requests = <<>> THEN 0 ELSE Len(submitted) + 1],
             m_query_builder)

\* rendered: whether the builder was asked for its expression
ExecuteQuery ==
    Execute([NoQCall EXCEPT !.op = "execute_query", !.rendered = Configured],
            execute_query)

\* token: next_link_url as the call leaves it
ExecutePagedQuery(next_link_url) ==
    Execute([NoQCall EXCEPT !.op = "execute_paged_query", !.str = next_link_url,
                            !.token = next_link_url],
            execute_paged_query(next_link_url))

ExecuteOperationQuery(parameters, is_function) ==
    Execute([NoQCall EXCEPT !.op = "execute_operation_query", !.params = parameters,
                            !.is_function = is_function, !.rendered = Configured],
            execute_operation_query(parameters, is_function))

\* odata_service_query::set_query_builder
SetQueryBuilder(builder) ==
    /\ QCall([NoQCall EXCEPT !.op = "set_query_builder"], builder)
    /\ UNCHANGED <<submitted, outcome>>

GetQueryExpression ==
    /\ QCall([NoQCall EXCEPT !.op = "get_query_expression", !.expr = get_query_expression,
                             !.rendered = m_query_builder # <<>>],
             m_query_builder)
    /\ UNCHANGED <<submitted, outcome>>

\* the builder the coordinator holds (a null pointer is never dereferenced)
Held == IF m_query_builder # <<>> THEN m_query_builder[1] ELSE NewBuilder(<<>>)

\* a mutator that makes itself a builder when there is none
Mutator_creating(rec, b) ==
    /\ QCall([rec EXCEPT !.handle = This], <<b>>)
    /\ UNCHANGED <<submitted, outcome>>

\* a mutator of the coordinator: the builder's mutator if there is a builder,
\* and shared_from_this() in any case
Mutator(rec, b) ==
    /\ QCall([rec EXCEPT !.handle = This],
             IF m_query_builder # <<>> THEN <<b>> ELSE m_query_builder)
    /\ UNCHANGED <<submitted, outcome>>

Top(count) ==
    Mutator([NoQCall EXCEPT !.op = "top", !.count = count], builder_top(Held, count))

Key(key_clause) ==
    Mutator([NoQCall EXCEPT !.op = "key", !.str = key_clause],
            builder_key(Held, key_clause))

Skip(count) ==
    Mutator([NoQCall EXCEPT !.op = "skip", !.count = count], builder_skip(Held, count))

Filter(filter_clause) ==
    Mutator([NoQCall EXCEPT !.op = "filter", !.str = filter_clause],
            builder_filter(Held, filter_clause))

Select(select_clause) ==
    Mutator([NoQCall EXCEPT !.op = "select", !.str = select_clause],
            builder_select(Held, select_clause))

Expand(expand_clause) ==
    Mutator([NoQCall EXCEPT !.op = "expand", !.str = expand_clause],
            builder_expand(Held, expand_clause))

\* expand(odata_query_path*): the path item comes as the text it evaluates to
ExpandPath(expand_path_item) ==
    Mutator([NoQCall EXCEPT !.op = "expand_path", !.str = expand_path_item],
            builder_expand(Held, expand_path_item))

Orderby(orderby_clause) ==
    Mutator([NoQCall EXCEPT !.op = "orderby", !.str = orderby_clause],
            builder_orderby(Held, orderby_clause))

\* a derived class clears the protected member m_query_executor
ResetExecutor ==
    /\ m_query_executor
    /\ qfuel > 0
    /\ qfuel' = qfuel - 1
    /\ m_query_executor' = FALSE
    /\ UNCHANGED <<m_query_builder, submitted, outcome, qhist, besideQuery>>

\* the executor's task for request r completes
Complete(r, result) ==
    /\ r \in 1..Len(outcome)
    /\ outcome[r] = "pending"
    /\ outcome' = [outcome EXCEPT ![r] = result]
    /\ UNCHANGED <<m_query_builder, m_query_executor, submitted, qhist, qfuel, besideQuery>>

\* the constructor: a builder on the query root and an executor
QueryConstructed(calls) ==
    /\ m_query_builder = <<NewBuilder(Root)>>
    /\ m_query_executor = TRUE
    /\ submitted = <<>>
    /\ outcome = <<>>
    /\ qhist = <<>>
    /\ qfuel = calls

InitQuery ==
    /\ QueryConstructed(MaxCalls)
    /\ FilterIdle
    /\ EdmIdle
    /\ UtilIdle
    /\ IniIdle

\* what the callers of the coordinator pass
Token == <<"n","?","$","s","k","i","p","t","o","k","e","n","=","2">>
Parameters == <<"p","q">>
Results == {"ok"} \cup Failures
OtherRoot == <<"O">>

\* queries executed and answered, builders exchanged
NextQuery ==
    \/ ExecuteQuery
    \/ ExecutePagedQuery(Token)
    \/ \E f \in BOOLEAN : ExecuteOperationQuery(Parameters, f)
    \/ \E b \in {<<>>, <<NewBuilder(OtherRoot)>>} : SetQueryBuilder(b)
    \/ GetQueryExpression
    \/ Top(10)
    \/ Key(<<"1">>)
    \/ ResetExecutor
    \/ \E r \in 1..MaxCalls, res \in Results : Complete(r, res)

SpecQuery == InitQuery /\ [][NextQuery]_vars

\* every call of the coordinator, with and without the builder and the executor
NextAbsent ==
    \/ Top(10)
    \/ Key(<<"1">>)
    \/ Skip(2)
    \/ Filter(<<"a"," ","e","q"," ","5">>)
    \/ Select(<<"a">>)
    \/ Expand(<<"c">>)
    \/ ExpandPath(<<"d","(","e",")">>)
    \/ Orderby(<<"a">>)
    \/ GetQueryExpression
    \/ SetQueryBuilder(<<>>)
    \/ ExecuteQuery
    \/ ExecutePagedQuery(Token)
    \/ ExecuteOperationQuery(Parameters, TRUE)
    \/ ResetExecutor

SpecAbsent == InitQuery /\ [][NextAbsent]_vars

\* the mutators in every order, those that overwrite or accumulate with two values
InitClauses ==
    /\ QueryConstructed(MaxClauses)
    /\ FilterIdle
    /\ EdmIdle
    /\ UtilIdle
    /\ IniIdle

NextClauses ==
    \/ \E n \in {10, 5} : Top(n)
    \/ \E k \in {<<"7">>, <<"'","k","'">>} : Key(k)
    \/ Skip(10)
    \/ \E f \in {<<"a"," ","e","q"," ","5">>, <<"b">>} : Filter(f)
    \/ \E c \in {<<"a">>, <<"b">>} : Select(c)
    \/ Expand(<<"c">>)
    \/ ExpandPath(<<"d","(","e",")">>)
    \/ Orderby(<<"b"," ","d","e","s","c">>)
    \/ GetQueryExpression

SpecClauses == InitClauses /\ [][NextClauses]_vars

(***************************************************************************)
(* The string utilities.  split_string cuts source at the occurrences of   *)
(* delim and leaves the pieces in the output list.                         *)
(***************************************************************************)
\* source.find(delim, from): the first position from from on at which delim
\* stands in source (0: npos)
RECURSIVE find(_, _, _)
find(source, delim, from) ==
    IF from + Len(delim) - 1 > Len(source) THEN 0
    ELSE IF SubSeq(source, from, from + Len(delim) - 1) = delim THEN from
    ELSE find(source, delim, from + 1)

\* a scan that goes on one character behind the start of a match
RECURSIVE split_from_overlapping(_, _, _)
split_from_overlapping(source, delim, begin) ==
    IF find(source, delim, begin) = 0 THEN <<SubSeq(source, begin, Len(source))>>
    ELSE <<SubSeq(source, begin, find(source, delim, begin) - 1)>>
             \o split_from_overlapping(source, delim, find(source, delim, begin) + 1)

\* the scan from position begin on: the piece up to the next match, then on
\* behind that match
RECURSIVE split_from(_, _, _)
split_from(source, delim, begin) ==
    IF find(source, delim, begin) = 0 THEN <<SubSeq(source, begin, Len(source))>>
    ELSE <<SubSeq(source, begin, find(source, delim, begin) - 1)>>
             \o split_from(source, delim, find(source, delim, begin) + Len(delim))

\* split_string: the list it leaves in ret
split_string(source, delim) ==
    IF delim = <<>> \/ source = <<>> THEN <<source>> ELSE split_from(source, delim, 1)

\* the caller puts an element into the list it will hand over
PushBack(x) ==
    /\ ~called.made
    /\ Len(ret) < MaxPrior
    /\ ret' = Append(ret, x)
    /\ called' = NoSplit
    /\ UNCHANGED <<answer, besideUtil>>

\* one test calls split_string once, on the list it has prepared
SplitString(source, delim) ==
    /\ ~called.made
    /\ ret' = split_string(source, delim)
    /\ called' = [source |-> source, delim |-> delim, before |-> ret, made |-> TRUE]
    /\ UNCHANGED <<answer, besideUtil>>

\* the next test begins with a list of its own
NextTest ==
    /\ called.made
    /\ ret' = <<>>
    /\ called' = NoSplit
    /\ UNCHANGED <<answer, besideUtil>>

\* the strings of the tests, and every string of dots and letters up to MaxLen
TestSources ==
    {<<"2","3","1","2","3",".","2","3","2","3","2",".","3","2","3","2","3">>,
     <<".",".","a","d","f",".",".","a","d",".",".","f","a",".",".","d","f","d","a","s",".",".">>,
     <<".",".",".","a","d","f",".",".","a","d",".",".",".",".","f","a",".",".","d","f","d","a","s",".",".",".">>,
     <<"a","d","f","a","d","f","a","d","f","d","a","s">>,
     <<".",".",".","a","d","f",".",".","a","d",".",".",".",".","f","a",".",".","d","f","d","a","s",".",".",".","f">>}
Sources == TestSources \cup UNION {[1..n -> {".", "a"}] : n \in 0..MaxLen}
Delims ==
    {<<>>, <<".">>, <<".",".">>, <<"a",".">>, <<"f">>,
     <<".",".",".","a","d","f",".",".","a","d",".",".",".",".","f","a",".",".","d","f","d","a","s",".",".",".","f">>,
     <<".",".",".","a","d","f",".",".","a","d",".",".",".",".","f","a",".",".","d","f","d","a","s",".",".",".","f","d","f","d","f","d","f","d","f">>}

InitSplit ==
    /\ UtilIdle
    /\ IniIdle
    /\ FilterIdle
    /\ EdmIdle
    /\ QueryIdle

NextSplit ==
    \/ PushBack(<<"1">>)
    \/ \E source \in Sources, delim \in Delims : SplitString(source, delim)
    \/ NextTest

SpecSplit == InitSplit /\ [][NextSplit]_vars

\* the quote characters
Quotes == {"\"", "'"}

\* a strip_string that takes the quotes off only where both ends have one
strip_string_enclosed_only(s) ==
    IF Len(s) >= 2 /\ s[1] \in Quotes /\ s[Len(s)] \in Quotes
    THEN SubSeq(s, 2, Len(s) - 1)
    ELSE s

\* strip_string: a pair of matching quotes gives the empty string; else one
\* quote goes from the front if there is one, then one from the back
strip_string(s) ==
    IF s = <<>> THEN <<>>
    ELSE IF Len(s) = 2 /\ s[1] \in Quotes /\ s[2] = s[1] THEN <<>>
    ELSE LET a == IF s[1] \in Quotes THEN Tail(s) ELSE s
         IN  IF a # <<>> /\ a[Len(a)] \in Quotes THEN SubSeq(a, 1, Len(a) - 1) ELSE a

\* one test makes one call
StripString(s) ==
    /\ answer = NoAnswer
    /\ answer' = [NoAnswer EXCEPT !.fn = "strip_string", !.s = s, !.out = strip_string(s)]
    /\ UNCHANGED <<ret, called, besideUtil>>

\* every string of quotes and digits up to MaxLen
QuotedStrings == UNION {[1..n -> Quotes \cup {"1"}] : n \in 0..MaxLen}

\* whether path begins with root, character by character from position i on
RECURSIVE begins_with(_, _, _)
begins_with(path, root, i) ==
    IF i > Len(root) THEN TRUE
    ELSE IF i > Len(path) \/ path[i] # root[i] THEN FALSE
    ELSE begins_with(path, root, i + 1)

\* the lower-case form of a text of the letters a and A
ToLower(text) == [i \in 1..Len(text) |-> IF text[i] = "A" THEN "a" ELSE text[i]]

\* an is_relative_path that compares without regard to case
is_relative_path_ignoring_case(root, path) ==
    IF root = <<>> \/ path = <<>> THEN FALSE
    ELSE ~begins_with(ToLower(path), ToLower(root), 1)

\* is_relative_path: a path under no root or an empty one is not relative, nor
\* is one that begins with the root
is_relative_path(root, path) ==
    IF root = <<>> \/ path = <<>> THEN FALSE
    ELSE ~begins_with(path, root, 1)

IsRelativePath(root, path) ==
    /\ answer = NoAnswer
    /\ answer' = [NoAnswer EXCEPT !.fn = "is_relative_path", !.root = root, !.path = path,
                                  !.rel = is_relative_path(root, path)]
    /\ UNCHANGED <<ret, called, besideUtil>>

\* the next test begins
NextCodecTest ==
    /\ answer # NoAnswer
    /\ answer' = NoAnswer
    /\ UNCHANGED <<ret, called, besideUtil>>

\* the roots and paths of the tests, and every string of a, A and / up to
\* MaxPathLen
ServiceRoot ==
    <<"h","t","t","p",":","/","/","o","d","a","t","a","e","2","e","t","e",
    "s","t",".","a","z","u","r","e","w","e","b","s","i","t","e","s",".","n",
    "e","t","/","c","p","p","t","e","s","t","/","D","e","f","a","u","l","t",
    "S","e","r","v","i","c","e">>
DoubledRoot == <<"h","t","t","p",":","/","/">> \o ServiceRoot
PathTexts == UNION {[1..n -> {"a", "A", "/"}] : n \in 0..MaxPathLen}
Roots == PathTexts \cup {ServiceRoot, DoubledRoot}
Paths ==
    PathTexts \cup {<<"A","c","c","o","u","n","t","s">>, <<"h","t","t","p">>,
                    ServiceRoot \o <<"/","A","c","c","o","u","n","t","s">>}

RECURSIVE Pow(_, _)
Pow(b, n) == IF n = 0 THEN 1 ELSE b * Pow(b, n - 1)

\* db times 10^precision, rounded to the nearest whole number; a value half way
\* goes to the even neighbour or away from zero, as the platform has it
Rounded(db, precision, ties) ==
    LET n == db.num * Pow(10, precision)
        q == n \div Pow(2, db.places)
        twice == 2 * (n % Pow(2, db.places))
    IN  IF twice > Pow(2, db.places) THEN q + 1
        ELSE IF twice < Pow(2, db.places) THEN q
        ELSE IF ties = "even" /\ q % 2 = 0 THEN q
        ELSE q + 1

\* text with zeros before it, n characters at least
RECURSIVE Pad(_, _)
Pad(text, n) == IF Len(text) >= n THEN text ELSE Pad(<<"0">> \o text, n)

\* the stream's fixed notation: the sign, the whole part and, for a precision
\* above 0, the point and precision fractional digits
fixed(db, precision, ties) ==
    (IF db.neg THEN <<"-">> ELSE <<>>)
      \o NatText(Rounded(db, precision, ties) \div Pow(10, precision))
      \o (IF precision = 0 THEN <<>>
          ELSE <<".">> \o Pad(NatText(Rounded(db, precision, ties) % Pow(10, precision)),
                              precision))

\* output.find('.') (0: none)
RECURSIVE find_dot(_, _)
find_dot(output, i) ==
    IF i > Len(output) THEN 0
    ELSE IF output[i] = "." THEN i
    ELSE find_dot(output, i + 1)

\* from position i down to the point: the last position that holds no zero
RECURSIVE last_kept(_, _, _)
last_kept(output, dot, i) ==
    IF i > dot /\ output[i] = "0" THEN last_kept(output, dot, i - 1) ELSE i

\* a print_double that takes every trailing zero off
print_double_no_digit_kept(db, precision, ties) ==
    IF find_dot(fixed(db, precision, ties), 1) = 0 THEN fixed(db, precision, ties)
    ELSE SubSeq(fixed(db, precision, ties), 1,
                last_kept(fixed(db, precision, ties),
                          find_dot(fixed(db, precision, ties), 1),
                          Len(fixed(db, precision, ties))))

\* print_double: the fixed notation without its trailing zeros, one digit
\* behind the point kept in any case
print_double(db, precision, ties) ==
    IF find_dot(fixed(db, precision, ties), 1) = 0 THEN fixed(db, precision, ties)
    ELSE LET output == fixed(db, precision, ties)
             dot == find_dot(output, 1)
             i == last_kept(output, dot, Len(output))
         IN  SubSeq(output, 1, IF i = dot THEN i + 1 ELSE i)

\* the precision of a call that names none
DefaultPrecision == 1

PrintDouble(db, precision, ties) ==
    /\ answer = NoAnswer
    /\ answer' = [NoAnswer EXCEPT !.fn = "print_double", !.db = db,
                                  !.precision = precision, !.ties = ties,
                                  !.out = print_double(db, precision, ties)]
    /\ UNCHANGED <<ret, called, besideUtil>>

\* 212.125 and -4212.25, and every double of a small numerator and few binary
\* places, of either sign
Doubles ==
    {[neg |-> FALSE, num |-> 1697, places |-> 3], [neg |-> TRUE, num |-> 16849, places |-> 2]}
      \cup [neg : BOOLEAN, num : 0..MaxNum, places : 0..MaxPlaces]
Precisions == 0..MaxPrecision
Platforms == {"even", "away"}

InitCodec == InitSplit

NextCodec ==
    \/ answer = NoAnswer /\ \E s \in QuotedStrings : StripString(s)
    \/ answer = NoAnswer /\ \E root \in Roots, path \in Paths : IsRelativePath(root, path)
    \/ answer = NoAnswer /\ \E db \in Doubles, ties \in Platforms :
                                PrintDouble(db, DefaultPrecision, ties)
    \/ answer = NoAnswer /\ \E db \in Doubles, precision \in Precisions, ties \in Platforms :
                                PrintDouble(db, precision, ties)
    \/ NextCodecTest

SpecCodec == InitCodec /\ [][NextCodec]_vars

(***************************************************************************)
(* The ini parser: the section accessors of a dictionary.  A pointer is    *)
(* <<>> when null and <<what it points to>> otherwise; a dictionary is a   *)
(* record of its size and of its key slots 0..size-1.                      *)
(***************************************************************************)
\* strchr(key, ':') != NULL
has_colon(key) == \E k \in 1..Len(key) : key[k] = ":"

\* d->key[i]; a slot outside the table reads as null
key_at(d, i) == IF i \in DOMAIN d.key THEN d.key[i] ELSE <<>>

\* iniparser_getnsec: the loop from slot i on
RECURSIVE getnsec_from(_, _, _)
getnsec_from(d, i, nsec) ==
    IF ~(i < d.size) THEN nsec
    ELSE IF d.key[i] = <<>> THEN getnsec_from(d, i + 1, nsec)
    ELSE IF ~has_colon(d.key[i][1]) THEN getnsec_from(d, i + 1, nsec + 1)
    ELSE getnsec_from(d, i + 1, nsec)

iniparser_getnsec(d) == IF d = <<>> THEN -1 ELSE getnsec_from(d[1], 0, 0)

\* a loop that counts a section and goes on though foundsec has passed n
RECURSIVE getsecname_from_no_break(_, _, _, _, _)
getsecname_from_no_break(d, n, i, foundsec, reads) ==
    IF ~(i < d.size) THEN [i |-> i, foundsec |-> foundsec, reads |-> reads]
    ELSE IF d.key[i] = <<>> THEN getsecname_from_no_break(d, n, i + 1, foundsec, reads \cup {i})
    ELSE IF ~has_colon(d.key[i][1])
         THEN getsecname_from_no_break(d, n, i + 1, foundsec + 1, reads \cup {i})
    ELSE getsecname_from_no_break(d, n, i + 1, foundsec, reads \cup {i})

\* iniparser_getsecname: the loop from slot i on; i and foundsec as the loop
\* leaves them, and the slots it has read
RECURSIVE getsecname_from(_, _, _, _, _)
getsecname_from(d, n, i, foundsec, reads) ==
    IF ~(i < d.size) THEN [i |-> i, foundsec |-> foundsec, reads |-> reads]
    ELSE IF d.key[i] = <<>> THEN getsecname_from(d, n, i + 1, foundsec, reads \cup {i})
    ELSE IF ~has_colon(d.key[i][1])
         THEN IF foundsec + 1 > n
              THEN [i |-> i, foundsec |-> foundsec + 1, reads |-> reads \cup {i}]
              ELSE getsecname_from(d, n, i + 1, foundsec + 1, reads \cup {i})
    ELSE getsecname_from(d, n, i + 1, foundsec, reads \cup {i})

iniparser_getsecname(d, n) ==
    IF d = <<>> \/ n < 0 THEN [name |-> <<>>, reads |-> {}]
    ELSE LET left == getsecname_from(d[1], n, 0, 0, {})
         IN  IF left.foundsec <= n THEN [name |-> <<>>, reads |-> left.reads]
             ELSE [name |-> key_at(d[1], left.i), reads |-> left.reads \cup {left.i}]

GetNSec(d) ==
    /\ seccall = NoSecCall
    /\ seccall' = [NoSecCall EXCEPT !.fn = "getnsec", !.d = d, !.nsec = iniparser_getnsec(d)]
    /\ UNCHANGED <<file, lineno, line, section, errs, dict, loaded, trace, besideIni>>

GetSecName(d, n) ==
    /\ seccall = NoSecCall
    /\ seccall' = [NoSecCall EXCEPT !.fn = "getsecname", !.d = d, !.n = n,
                                    !.name = iniparser_getsecname(d, n).name,
                                    !.reads = iniparser_getsecname(d, n).reads]
    /\ UNCHANGED <<file, lineno, line, section, errs, dict, loaded, trace, besideIni>>

\* the caller turns to its next call
NextSecTest ==
    /\ seccall # NoSecCall
    /\ seccall' = NoSecCall
    /\ UNCHANGED <<file, lineno, line, section, errs, dict, loaded, trace, besideIni>>

\* a slot is unused, or holds a section "s" or "t", or a key "s:k" of a section
Keys == {<<>>, <<<<"s">>>>, <<<<"t">>>>, <<<<"s",":","k">>>>}
Dictionaries ==
    {<<>>} \cup UNION {{<<[size |-> size, key |-> key]>> : key \in [0..(size - 1) -> Keys]} :
                          size \in 0..MaxSlots}

InitSections == InitSplit

NextSections ==
    \/ seccall = NoSecCall /\ \E d \in Dictionaries : GetNSec(d)
    \/ seccall = NoSecCall /\ \E d \in Dictionaries, n \in -1..(MaxSlots + 1) : GetSecName(d, n)
    \/ NextSecTest

SpecSections == InitSections /\ [][NextSections]_vars

(***************************************************************************)
(* The ini parser: iniparser_load, a turn of its loop at a time.           *)
(***************************************************************************)
\* the character '\0'
NUL == "NUL"

isspace(c) == c \in {" ", "\t"}

RECURSIVE ltrim(_)
ltrim(text) == IF text # <<>> /\ isspace(text[1]) THEN ltrim(Tail(text)) ELSE text

RECURSIVE rtrim(_)
rtrim(text) ==
    IF text # <<>> /\ isspace(text[Len(text)]) THEN rtrim(SubSeq(text, 1, Len(text) - 1))
    ELSE text

strstrip(text) == ltrim(rtrim(text))

strlwc(text) ==
    [i \in 1..Len(text) |-> IF text[i] = "K" THEN "k" ELSE IF text[i] = "S" THEN "s" ELSE text[i]]

\* text.c_str() as the C library reads it: what stands before the first '\0'
RECURSIVE c_str(_)
c_str(text) ==
    IF text = <<>> \/ text[1] = NUL THEN <<>> ELSE <<text[1]>> \o c_str(Tail(text))

\* sscanf's %[^...]: the characters from position i on that a scan set excluding
\* stops takes
RECURSIVE scan_until(_, _, _)
scan_until(text, i, stops) ==
    IF i > Len(text) \/ text[i] \in stops THEN <<>>
    ELSE <<text[i]>> \o scan_until(text, i + 1, stops)

\* sscanf's white space directive: the first position from i on that holds none
RECURSIVE skip_space(_, _)
skip_space(text, i) ==
    IF i <= Len(text) /\ isspace(text[i]) THEN skip_space(text, i + 1) ELSE i

\* the start "%[^=] =" of the five formats: where the input stands after it,
\* 0 when the key is empty or no '=' follows it
after_equals(text) ==
    LET key == scan_until(text, 1, {"="})
    IN  IF key = <<>> \/ Len(key) = Len(text) THEN 0 ELSE skip_space(text, Len(key) + 2)

\* sscanf(line, "%[^=] = q%[^q]q", key, value) == 2, for a quote q
scans_quoted(text, q) ==
    /\ after_equals(text) # 0
    /\ after_equals(text) <= Len(text)
    /\ text[after_equals(text)] = q
    /\ scan_until(text, after_equals(text) + 1, {q}) # <<>>

\* sscanf(line, "%[^=] = %[^;#]", key, value) == 2
scans_plain(text) ==
    /\ after_equals(text) # 0
    /\ scan_until(text, after_equals(text), {";", "#"}) # <<>>

\* sscanf(line, "%[^=] = %[;#]", key, value) == 2 or
\* sscanf(line, "%[^=] %[=]", key, value) == 2
scans_special(text) == after_equals(text) # 0

\* iniparser_line on the accumulated line; sec is what the buffer sec held
\* before the call, which is what it still holds when sscanf stores nothing
iniparser_line(input_line, section_in, sec) ==
    LET stripped == strstrip(input_line)
        len == Len(stripped)
        text == c_str(stripped)
        key == strlwc(strstrip(scan_until(text, 1, {"="})))
        none == [sta |-> "LINE_EMPTY", section |-> section_in, key |-> <<>>, value |-> <<>>]
    IN  IF len < 1 THEN none
        ELSE IF stripped[1] \in {"#", ";"} THEN [none EXCEPT !.sta = "LINE_COMMENT"]
        ELSE IF stripped[1] = "[" /\ stripped[len] = "]"
             THEN [none EXCEPT !.sta = "LINE_SECTION",
                               !.section =
                                   strlwc(strstrip(
                                       IF scan_until(text, 2, {"]"}) = <<>> THEN sec
                                       ELSE scan_until(text, 2, {"]"})))]
        ELSE IF scans_quoted(text, "\"")
             THEN [none EXCEPT !.sta = "LINE_VALUE", !.key = key,
                               !.value = strstrip(scan_until(text, after_equals(text) + 1, {"\""}))]
        ELSE IF scans_quoted(text, "'")
             THEN [none EXCEPT !.sta = "LINE_VALUE", !.key = key,
                               !.value = strstrip(scan_until(text, after_equals(text) + 1, {"'"}))]
        ELSE IF scans_plain(text)
             THEN LET value == strstrip(scan_until(text, after_equals(text), {";", "#"}))
                  IN  [none EXCEPT !.sta = "LINE_VALUE", !.key = key,
                                   !.value = IF value \in {<<"\"", "\"">>, <<"'", "'">>}
                                             THEN <<>> ELSE value]
        ELSE IF scans_special(text) THEN [none EXCEPT !.sta = "LINE_VALUE", !.key = key]
        ELSE [none EXCEPT !.sta = "LINE_ERROR"]

\* "Get rid of \n and spaces at end of line": every blank at the end of the line
\* is overwritten by '\0'; len is the index, from 0, the loop stops at
RECURSIVE blank_end(_, _)
blank_end(text, len) ==
    IF len >= 0 /\ isspace(text[len + 1])
    THEN blank_end([text EXCEPT ![len + 1] = NUL], len - 1)
    ELSE [line |-> text, len |-> len]

\* "Detect multi-line"; with len = -1 the read of line[len] is outside the
\* string, and whatever it yields the test of len makes the condition false
multi_line(text, len) == len > 1 /\ text[len + 1] = "\\" /\ isspace(text[len])

\* iniparser_load up to the loop: the file opens; dictionary_new gives a
\* dictionary or, out of memory, none
Load(f, made) ==
    /\ loaded = "no"
    /\ file' = f
    /\ lineno' = 0
    /\ line' = <<>>
    /\ section' = <<>>
    /\ errs' = 0
    /\ dict' = IF made THEN <<<<>>>> ELSE <<>>
    /\ loaded' = IF made THEN "reading" ELSE "returned"
    /\ trace' = <<>>
    /\ UNCHANGED <<seccall, besideIni>>

\* one turn of the loop: get_line gives the next physical line, rc is what
\* dictionary_set returns if it is called
GetLine(rc, sec) ==
    /\ loaded = "reading"
    /\ errs >= 0
    /\ lineno < Len(file)
    /\ lineno' = lineno + 1
    /\ LET line_tmp == file[lineno + 1]
           appended == line \o line_tmp
           turn == [before |-> line, line_tmp |-> line_tmp, did |-> "short"]
       IN  IF Len(appended) - 1 <= 0
           THEN /\ line' = appended
                /\ trace' = Append(trace, turn)
                /\ UNCHANGED <<section, errs, dict>>
           ELSE \E blanked \in {blank_end(appended, Len(appended) - 1)} :
                    IF multi_line(blanked.line, blanked.len)
                    THEN /\ line' = SubSeq(blanked.line, 1, Len(blanked.line) - 1)
                         /\ trace' = Append(trace, [turn EXCEPT !.did = "multi"])
                         /\ UNCHANGED <<section, errs, dict>>
                    ELSE \E got \in {iniparser_line(blanked.line, section, sec)} :
                             /\ line' = <<>>
                             /\ trace' = Append(trace, [turn EXCEPT !.did = got.sta])
                             /\ section' = got.section
                             /\ errs' = CASE got.sta \in {"LINE_SECTION", "LINE_VALUE"} -> rc
                                          [] got.sta = "LINE_ERROR" -> errs + 1
                                          [] OTHER -> errs
                             /\ dict' =
                                    CASE got.sta = "LINE_SECTION" /\ rc = 0 ->
                                             <<Append(dict[1], <<got.section, <<>>>>)>>
                                      [] got.sta = "LINE_VALUE" /\ rc = 0 ->
                                             <<Append(dict[1], <<got.section \o <<":">> \o got.key,
                                                                <<got.value>>>>)>>
                                      [] OTHER -> dict
    /\ UNCHANGED <<seccall, file, loaded, besideIni>>

\* the loop is left, by the end of the file or by the break on errs < 0
Return ==
    /\ loaded = "reading"
    /\ lineno = Len(file) \/ errs < 0
    /\ dict' = IF errs # 0 THEN <<>> ELSE dict
    /\ loaded' = "returned"
    /\ UNCHANGED <<seccall, file, lineno, line, section, errs, trace, besideIni>>

\* an empty line, "x", ";c", "[S]", "K=1", "xx", "k= \", two blanks, "[s] "
LineTexts ==
    {<<>>, <<"x">>, <<";","c">>, <<"[","S","]">>, <<"K","=","1">>, <<"x","x">>,
     <<"k","="," ","\\">>, <<" "," ">>, <<"[","s","]"," ">>}
Files == UNION {[1..n -> LineTexts] : n \in 0..MaxLines}
Leftovers == {<<>>, <<"z">>}

InitLoad == InitSplit

NextLoad ==
    \/ loaded = "no" /\ \E f \in Files, made \in BOOLEAN : Load(f, made)
    \/ \E rc \in {0, -1}, sec \in Leftovers : GetLine(rc, sec)
    \/ Return

SpecLoad == InitLoad /\ [][NextLoad]_vars

(***************************************************************************)
(* Properties of the filter-expression composer.                           *)
(***************************************************************************)
Calls == 1..Len(hist)

Max(S) == CHOOSE m \in S : \A x \in S : x <= m

\* the latest call before call k whose receiver is o (0: none)
LatestCall(o, k) ==
    LET js == {j \in 1..(k - 1) : hist[j].recv = o}
    IN  IF js = {} THEN 0 ELSE Max(js)

\* the text the calls before call k left in o
TextLeft(o, k) ==
    IF LatestCall(o, k) = 0 THEN origin[o] ELSE hist[LatestCall(o, k)].after

\* the text the call c leaves when it is applied to the text e
Reapply(c, e) ==
    CASE c.op \in CmpOps -> CmpText(c.op, e, c.val)
      [] c.op \in LogicOps -> LogicText(c.op, e, c.str)
      [] c.op = "not" -> operator_not(e)
      [] c.op \in StrFns -> StrFnText(c.op, e, c.str)
      [] c.op \in UnaryFns -> UnaryText(c.op, e)
      [] c.op = "substring1" -> substring1(e, c.i)
      [] c.op = "substring2" -> substring2(e, c.i, c.n)

\* call k is x.and(y) where the last call on x was eq (call i) and the last call on
\* y was startswith (call j)
IsEqAndStartswith(i, j, k) ==
    /\ hist[k].op = "and"
    /\ hist[k].rhs # hist[k].recv
    /\ i = LatestCall(hist[k].recv, k)
    /\ j = LatestCall(hist[k].rhs, k)
    /\ i # 0
    /\ j # 0
    /\ hist[i].op = "eq"
    /\ hist[j].op = "startswith"

\* the calls on which call k, an and, builds: on its receiver and on its right operand
AndOperands(k) == <<LatestCall(hist[k].recv, k), LatestCall(hist[k].rhs, k)>>

\* C1: eq followed by and with a startswith expression yields
\* "<a> eq <v> and startswith(<b>,'<s>')"; for the attributes "a" and "b", the
\* operand 5 and the argument "x" that is "a eq 5 and startswith(b,'x')".
C1_EqAndStartswith ==
    \A k \in Calls :
        LET i == AndOperands(k)[1]
            j == AndOperands(k)[2]
        IN
        (hist[k].op = "and" /\ IsEqAndStartswith(i, j, k)) =>
            /\ hist[k].after =
                   hist[i].before \o <<" ","e","q"," ">> \o StreamOut(hist[i].val)
                       \o <<" ","a","n","d"," ">>
                       \o <<"s","t","a","r","t","s","w","i","t","h","(">>
                       \o hist[j].before \o <<",","'">> \o hist[j].str \o <<"'",")">>
            /\ exp[hist[k].recv] = hist[k].after \/ LatestCall(hist[k].recv, Len(hist) + 1) # k
            /\ (/\ hist[i].before = <<"a">>
                /\ hist[j].before = <<"b">>
                /\ hist[i].val = IntV(5)
                /\ hist[j].str = <<"x">>)
               => hist[k].after =
                      <<"a"," ","e","q"," ","5"," ","a","n","d"," ","s","t","a","r","t","s",
                        "w","i","t","h","(","b",",","'","x","'",")">>

C1_Witness ==
    /\ Len(hist) = 3
    /\ \E i \in Calls, j \in Calls : IsEqAndStartswith(i, j, 3)
    /\ hist[3].recv = 1
    /\ hist[3].rhs = 2
    /\ exp[1] = <<"a"," ","e","q"," ","5"," ","a","n","d"," ","s","t","a","r","t","s",
                  "w","i","t","h","(","b",",","'","x","'",")">>

\* the name of a function as it is spelled in a query
FunctionName(fn) ==
    CASE fn = "tolower" -> <<"t","o","l","o","w","e","r">>
      [] fn = "toupper" -> <<"t","o","u","p","p","e","r">>
      [] fn = "trim" -> <<"t","r","i","m">>
      [] fn = "contains" -> <<"c","o","n","t","a","i","n","s">>
      [] fn = "concat" -> <<"c","o","n","c","a","t">>
      [] fn = "endswith" -> <<"e","n","d","s","w","i","t","h">>
      [] fn = "startswith" -> <<"s","t","a","r","t","s","w","i","t","h">>

\* C2: tolower, toupper and trim render "tolower(e)", "toupper(e)" and "trim(e)",
\* with no quote character in the added text.
C2_UnaryFunctions ==
    \A k \in Calls :
        hist[k].op \in UnaryFns =>
            hist[k].after = FunctionName(hist[k].op) \o <<"(">> \o hist[k].before \o <<")">>

\* C3: substring(i) renders "substring(e,'i')" and substring(i, len) renders
\* "substring(e,'i','len')", each integer in its own pair of single quotes.
C3_Substring ==
    \A k \in Calls :
        /\ hist[k].op = "substring1" =>
               hist[k].after =
                   <<"s","u","b","s","t","r","i","n","g","(">> \o hist[k].before
                       \o <<",","'">> \o IntText(hist[k].i) \o <<"'",")">>
        /\ hist[k].op = "substring2" =>
               hist[k].after =
                   <<"s","u","b","s","t","r","i","n","g","(">> \o hist[k].before
                       \o <<",","'">> \o IntText(hist[k].i) \o <<"'",",","'">>
                       \o IntText(hist[k].n) \o <<"'",")">>

\* C4 as claimed: a chain started from an attribute x begins from x's original
\* text, whatever chains were applied to x before.
C4_ChainBeginsFromOriginal ==
    \A k \in Calls : hist[k].start => hist[k].before = origin[hist[k].recv]

\* C4: a combinator changes its receiver in place and nothing else: every
\* attribute holds the text the last call on it left (its original text when none
\* was made), whatever was called on other attributes or on its copies, and every
\* call, also the first of a new chain, begins from that text.
C4_InPlaceNotShared ==
    /\ \A o \in live : exp[o] = TextLeft(o, Len(hist) + 1)
    /\ \A k \in Calls : hist[k].before = TextLeft(hist[k].recv, k)

\* a second chain on x began from the text the first left, while a copy of x taken
\* before the first chain still holds x's original text
C4_Witness ==
    \E k \in Calls, c \in live :
        /\ hist[k].start
        /\ LatestCall(hist[k].recv, k) # 0
        /\ hist[k].before # origin[hist[k].recv]
        /\ c # hist[k].recv
        /\ origin[c] = origin[hist[k].recv]
        /\ exp[c] = origin[c]

\* the keyword of each comparison combinator
Keyword(op) ==
    CASE op = "eq" -> <<"e","q">>
      [] op = "ne" -> <<"n","e">>
      [] op = "ge" -> <<"g","e">>
      [] op = "gt" -> <<"g","t">>
      [] op = "le" -> <<"l","e">>
      [] op = "lt" -> <<"l","t">>

\* C5: eq, ne, ge, gt, le, lt yield e, a space, their keyword, a space and the
\* operand as the stream renders it, and no two of them yield the same text.
C5_Comparison ==
    \A k \in Calls :
        hist[k].op \in CmpOps =>
            /\ hist[k].after =
                   hist[k].before \o <<" ">> \o Keyword(hist[k].op) \o <<" ">>
                       \o StreamOut(hist[k].val)
            /\ \A p \in CmpOps, q \in CmpOps :
                   p # q => CmpText(p, hist[k].before, hist[k].val)
                                # CmpText(q, hist[k].before, hist[k].val)
            /\ (hist[k].op = "ge" /\ hist[k].before = <<"a">> /\ hist[k].val = IntV(-12))
                   => hist[k].after = <<"a"," ","g","e"," ","-","1","2">>
            /\ (hist[k].op = "eq" /\ hist[k].before = <<"a">> /\ hist[k].val = StrV(<<"x">>))
                   => hist[k].after = <<"a"," ","e","q"," ","x">>

C5_Witness ==
    /\ last.op = "ge"
    /\ last.val = IntV(-12)
    /\ exp[last.recv] = <<"a"," ","g","e"," ","-","1","2">>

\* the texts and, or and not are claimed to leave
LogicForms ==
    \A k \in Calls :
        /\ hist[k].op = "and" =>
               hist[k].after = hist[k].before \o <<" ","a","n","d"," ">> \o hist[k].str
        /\ hist[k].op = "or" =>
               hist[k].after = hist[k].before \o <<" ","o","r"," ">> \o hist[k].str
        /\ hist[k].op = "not" => hist[k].after = <<"n","o","t"," ">> \o hist[k].before

\* calls j and k are successive calls on one attribute
Successive(j, k) == j # 0 /\ j = LatestCall(hist[k].recv, k)

\* the text the calls j and k leave when they are made in the other order
Swapped(j, k) == Reapply(hist[j], Reapply(hist[k], hist[j].before))

\* C6 as claimed: and, or and not yield "e and r", "e or r" and "not e", and two
\* different combinators applied in the other order yield a different text.
C6_OrderAlwaysShows ==
    /\ LogicForms
    /\ \A j \in Calls, k \in Calls :
           (/\ Successive(j, k)
            /\ {hist[j].op, hist[k].op} \subseteq {"and", "or", "not"}
            /\ hist[j].op # hist[k].op)
           => Swapped(j, k) # hist[k].after

\* C6: and, or and not yield "e and r", "e or r" and "not e"; and and or applied
\* in the other order yield a different text, while not and a binary combinator
\* yield the same text in either order ("not e and r").
C6_Logical ==
    /\ LogicForms
    /\ \A j \in Calls, k \in Calls :
           Successive(j, k) =>
               /\ {hist[j].op, hist[k].op} = {"and", "or"} => Swapped(j, k) # hist[k].after
               /\ (/\ "not" \in {hist[j].op, hist[k].op}
                   /\ {hist[j].op, hist[k].op} \cap {"and", "or"} # {})
                  => Swapped(j, k) = hist[k].after

C6_Witness ==
    \E j \in Calls, k \in Calls :
        /\ Successive(j, k)
        /\ hist[j].op = "not"
        /\ hist[k].op = "and"
        /\ hist[j].before = <<"a">>
        /\ hist[k].str = <<"b">>
        /\ exp[hist[k].recv] = <<"n","o","t"," ","a"," ","a","n","d"," ","b">>

\* C7: contains, concat, startswith and endswith render "<name>(e,'s')".
C7_StringFunctions ==
    \A k \in Calls :
        hist[k].op \in StrFns =>
            /\ hist[k].after =
                   FunctionName(hist[k].op) \o <<"(">> \o hist[k].before \o <<",","'">>
                       \o hist[k].str \o <<"'",")">>
            /\ (hist[k].op = "concat" /\ hist[k].before = <<"N","a","m","e">>
                    /\ hist[k].str = <<"a","b">>)
                   => hist[k].after =
                          <<"c","o","n","c","a","t","(","N","a","m","e",",","'","a","b","'",")">>

C7_Witness ==
    /\ last.op = "endswith"
    /\ last.str = <<"a","b">>
    /\ exp[last.recv] = <<"e","n","d","s","w","i","t","h","(","a",",","'","a","b","'",")">>

(***************************************************************************)
(* Properties of the metadata model.                                       *)
(***************************************************************************)
Schemas == 1..Len(m_schemata)

ContainersOf(i) == m_schemata[i].containers

\* schema i owns a container with this local name and this default flag
Owns(i, n, d) ==
    \E k \in 1..Len(ContainersOf(i)) :
        ContainersOf(i)[k].name = n /\ ContainersOf(i)[k].is_default = d

AnyDefault == \E i \in Schemas : \E n \in ContainerNames : Owns(i, n, TRUE)

\* C8: find_container("") returns a container flagged default when any schema
\* owns one, nothing when none is flagged, and never a container that is not
\* flagged default.
C8_DefaultContainer ==
    (found.kind = "container" /\ found.name = <<>>) =>
        /\ AnyDefault => found.s # 0
        /\ ~AnyDefault => found.s = 0
        /\ found.s # 0 => found.s \in Schemas /\ Owns(found.s, found.n, TRUE)

\* the default container was found behind a container that is not the default one
C8_Witness ==
    /\ found.kind = "container"
    /\ found.name = <<>>
    /\ found.s # 0
    /\ Owns(found.s, found.n, TRUE)
    /\ \E i \in 1..found.s : \E n \in ContainerNames :
           /\ Owns(i, n, FALSE)
           /\ i = found.s =>
                  \E j \in 1..Len(ContainersOf(i)), k \in 1..Len(ContainersOf(i)) :
                      /\ j < k
                      /\ ContainersOf(i)[j].name = n
                      /\ ContainersOf(i)[k].name = found.n

\* C9: for a container with local name c in a schema with name s and alias a,
\* find_container("s.c"), find_container("a.c") and find_container("c") each
\* return a container with that local name.
C9_QualifiedContainer ==
    (found.kind = "container" /\ found.name # <<>>) =>
        \A i \in Schemas : \A k \in 1..Len(ContainersOf(i)) :
            LET sc == m_schemata[i]
                c == ContainersOf(i)[k].name
            IN  (\/ found.name = c
                 \/ found.name = sc.name \o Dot \o c
                 \/ sc.alias # <<>> /\ found.name = sc.alias \o Dot \o c)
                => found.s # 0 /\ found.n = c

\* the schemas whose own lookup of this kind yields a match for the name
MatchingSchemas(kind, name) ==
    {i \in Schemas :
        IF kind = "container" THEN schema_find_container(m_schemata[i], name) # <<>>
        ELSE schema_find_type(m_schemata[i], kind, name) # <<>>}

Min(S) == CHOOSE m \in S : \A x \in S : m <= x

\* C10: a lookup on the model, of any of the four type kinds or of a container,
\* returns the match of the earliest added schema that yields one, and nothing
\* when no schema yields one, also when the model has no schema.
C10_FirstSchemaWins ==
    found.kind # "none" =>
        LET M == MatchingSchemas(found.kind, found.name)
        IN  /\ M = {} => found.s = 0 /\ found.n = <<>>
            /\ M # {} =>
                   /\ found.s = Min(M)
                   /\ found.n =
                          IF found.kind = "container"
                          THEN schema_find_container(m_schemata[Min(M)], found.name)[1].name
                          ELSE schema_find_type(m_schemata[Min(M)], found.kind,
                                                found.name)[1].name

\* two schemas own a type of the kind and name looked up, and the first one's came back
C10_Witness ==
    /\ found.kind \in TypeKinds
    /\ Cardinality(MatchingSchemas(found.kind, found.name)) = 2
    /\ found.s = 1
    /\ found.n = <<"c">>

\* C11 as stated: in every state that add_schema calls reach, no two schemas of
\* the model have the same name.
C11_UniqueByName ==
    \A i, j \in Schemas : i # j => m_schemata[i].name # m_schemata[j].name

Named(schemata, name) == {i \in 1..Len(schemata) : schemata[i].name = name}

\* what one add_schema or operator[] call does to the model
AddSchemaAndIndexStep ==
    /\ (returned'.op = "add_schema" /\ returned' # returned) =>
           /\ m_schemata' =
                  Append(m_schemata, NewSchema(returned'.name, returned'.alias))
           /\ returned'.s = Len(m_schemata')
           /\ (C11_UniqueByName' <=>
                   C11_UniqueByName /\ Named(m_schemata, returned'.name) = {})
    /\ returned'.op = "index" =>
           /\ m_schemata' = m_schemata
           /\ Named(m_schemata, returned'.name) = {} => returned'.s = 0
           /\ Named(m_schemata, returned'.name) # {} =>
                  returned'.s = Min(Named(m_schemata, returned'.name))

\* C11, amended: add_schema appends a new schema with the given name and alias
\* behind the schemas the model has, which it leaves as they are, and returns
\* the new one, whether or not the name is taken already; so the names stay
\* unique exactly as long as the caller passes no name twice.  operator[]
\* changes nothing and returns the first schema added under the name, null
\* if there is none.
C11_AddSchemaAndIndex == [][AddSchemaAndIndexStep]_vars

\* two schemas stand under one name with different aliases, and operator[] has
\* returned the first of them
C11_Witness ==
    /\ Len(m_schemata) >= 2
    /\ m_schemata[1].name = m_schemata[2].name
    /\ m_schemata[1].alias # m_schemata[2].alias
    /\ returned.op = "index"
    /\ returned.name = m_schemata[2].name
    /\ returned.s = 1

(***************************************************************************)
(* Properties of the string utilities.                                     *)
(***************************************************************************)
\* where delim stands in source
Occurrences(source, delim) ==
    {i \in 1..(Len(source) - Len(delim) + 1) :
        SubSeq(source, i, i + Len(delim) - 1) = delim}

\* the matches of a left-to-right scan for a non-empty delim: an occurrence is
\* a match unless it begins inside an earlier match
Matches(source, delim) ==
    CHOOSE M \in SUBSET Occurrences(source, delim) :
        \A i \in Occurrences(source, delim) :
            i \in M <=> ~\E m \in M : m < i /\ i < m + Len(delim)

\* the number of elements of S below i
Below(S, i) == Cardinality({m \in S : m < i})

\* the piece of source that ends before the match at position m, or at the
\* end of source for m = Len(source) + 1, the matches being M
PieceBefore(source, delim, M, m) ==
    LET earlier == {x \in M : x < m}
        start == IF earlier = {} THEN 1 ELSE Max(earlier) + Len(delim)
    IN  SubSeq(source, start, m - 1)

\* C20: split(s, delimiter) leaves in the output list the pieces of s between
\* the matches of a left-to-right scan that goes on behind each match (so no
\* two matches overlap), one more piece than there are matches, empty pieces
\* included; s equal to the delimiter gives two empty pieces; an empty
\* delimiter, an empty s, a delimiter that does not occur in s or is longer
\* than s give the single piece s; nothing the list held before is kept.
C20_Split ==
    called.made =>
        \A s \in {called.source}, d \in {called.delim} :
            /\ (d = <<>> \/ s = <<>> \/ Occurrences(s, d) = {} \/ Len(d) > Len(s)) =>
                   ret = <<s>>
            /\ (d # <<>> /\ s = d) => ret = <<<<>>, <<>>>>
            /\ (d # <<>> /\ s # <<>>) =>
                   \A M \in {Matches(s, d)} :
                       /\ Len(ret) = Cardinality(M) + 1
                       /\ \A m \in M \cup {Len(s) + 1} :
                              ret[Below(M, m) + 1] = PieceBefore(s, d, M, m)
                       /\ Join(ret, d) = s

\* the list held 1, 1 and "...a" was split at "..": the pieces are "" and ".a"
C20_Witness ==
    /\ called.made
    /\ called.before = <<<<"1">>, <<"1">>>>
    /\ called.source = <<".",".",".","a">>
    /\ called.delim = <<".",".">>
    /\ ret = <<<<>>, <<".","a">>>>

\* C21: strip_quote(s) is empty when s is empty or is a pair of matching quote
\* characters; otherwise it is s without its first character if that is a
\* quote and without its last character if that is a quote, the two
\* independently of each other and nothing else changed: a string with no quote
\* at either end comes back unchanged, and the result is never longer than s.
C21_StripQuote ==
    answer.fn = "strip_string" =>
        \A s \in {answer.s}, n \in {Len(answer.s)} :
            /\ Len(answer.out) <= n
            /\ (n = 0 \/ (n = 2 /\ s[1] \in Quotes /\ s[2] = s[1])) => answer.out = <<>>
            /\ (n > 0 /\ s[1] \notin Quotes /\ s[n] \notin Quotes) => answer.out = s
            /\ n > 0 =>
                   answer.out =
                       SubSeq(s, IF s[1] \in Quotes THEN 2 ELSE 1,
                                 IF s[n] \in Quotes /\ (n > 1 \/ s[1] \notin Quotes)
                                 THEN n - 1 ELSE n)

\* a string with a quote at its front only: the quote is gone, the quote inside
\* and the digits stay
C21_Witness ==
    /\ answer.fn = "strip_string"
    /\ answer.s = <<"\"", "1", "'", "1">>
    /\ answer.out = <<"1", "'", "1">>

RECURSIVE NatValue(_)
NatValue(text) ==
    IF text = <<>> THEN 0
    ELSE 10 * NatValue(SubSeq(text, 1, Len(text) - 1))
           + (CHOOSE d \in 0..9 : Digit[d + 1] = text[Len(text)])

IsDigits(text) == text # <<>> /\ \A i \in 1..Len(text) : \E d \in 1..10 : Digit[d] = text[i]

\* out without its sign
Unsigned(out) == IF out # <<>> /\ out[1] = "-" THEN Tail(out) ELSE out

\* where the points of a text are
Points(text) == {i \in 1..Len(text) : text[i] = "."}

\* C23: format_decimal keeps the sign of an exact zero, "-0.0" for negative
\* and "0.0" for positive zero at the default precision 1; with precision 0
\* the output has no decimal point and no fractional digits; with a precision
\* above 0 it has a point and behind it at least one digit and no trailing
\* zero beyond that one, so that a whole number N renders as "N.0"; the
\* digits written are the value, rounded to the precision.
C23_FormatDecimal ==
    answer.fn = "print_double" =>
        \A out \in {answer.out}, db \in {answer.db}, p \in {answer.precision} :
            \A u \in {Unsigned(out)}, den \in {Pow(2, db.places)} :
                /\ (out # u) <=> db.neg
                /\ (db.num = 0 /\ p = DefaultPrecision) =>
                       out = IF db.neg THEN <<"-","0",".","0">> ELSE <<"0",".","0">>
                /\ p = 0 =>
                       /\ IsDigits(u)
                       /\ 2 * (NatValue(u) * den - db.num) <= den
                       /\ 2 * (db.num - NatValue(u) * den) <= den
                /\ p > 0 =>
                       /\ Cardinality(Points(u)) = 1
                       /\ \A dot \in Points(u) :
                              \A whole \in {SubSeq(u, 1, dot - 1)},
                                 frac \in {SubSeq(u, dot + 1, Len(u))} :
                                  /\ IsDigits(whole) /\ IsDigits(frac)
                                  /\ Len(frac) <= p
                                  /\ Len(frac) > 1 => frac[Len(frac)] # "0"
                                  /\ db.num % den = 0 =>
                                         whole = NatText(db.num \div den) /\ frac = <<"0">>
                                  /\ \A v \in {NatValue(whole) * Pow(10, p)
                                                  + NatValue(frac) * Pow(10, p - Len(frac))} :
                                         /\ 2 * (v * den - db.num * Pow(10, p)) <= den
                                         /\ 2 * (db.num * Pow(10, p) - v * den) <= den

\* -2.5 at precision 3: the zeros of -2.500 are stripped down to -2.5
C23_Witness ==
    /\ answer.fn = "print_double"
    /\ answer.db = [neg |-> TRUE, num |-> 5, places |-> 1]
    /\ answer.precision = 3
    /\ answer.out = <<"-","2",".","5">>

(***************************************************************************)
(* Properties of the ini parser.                                           *)
(***************************************************************************)
\* the slots of d that hold a section name: a key, and no ':' in it
SectionSlots(d) ==
    {i \in 0..(d.size - 1) : d.key[i] # <<>> /\ \A k \in 1..Len(d.key[i][1]) : d.key[i][1][k] # ":"}

\* C24: iniparser_getnsec(d) is the number of non-NULL keys without a ':'
\* and -1 when d is NULL; iniparser_getsecname(d, n) returns, for n from 0
\* below that number, the n-th such key in slot order, and NULL for n < 0,
\* for n at or above that number and for d NULL; it reads no slot outside
\* 0..size-1.
C24_Sections ==
    /\ seccall.fn = "getnsec" =>
           seccall.nsec = IF seccall.d = <<>> THEN -1
                          ELSE Cardinality(SectionSlots(seccall.d[1]))
    /\ seccall.fn = "getsecname" =>
           IF seccall.d = <<>> THEN seccall.name = <<>> /\ seccall.reads = {}
           ELSE \A d \in {seccall.d[1]} :
                    \A S \in {SectionSlots(d)} :
                        /\ seccall.reads \subseteq 0..(d.size - 1)
                        /\ IF 0 <= seccall.n /\ seccall.n < Cardinality(S)
                           THEN \E i \in S :
                                    /\ Cardinality({j \in S : j < i}) = seccall.n
                                    /\ seccall.name = d.key[i]
                           ELSE seccall.name = <<>>

\* of the slots "s", "s:k", "t", section 1 is "t"
C24_Witness ==
    /\ seccall.fn = "getsecname"
    /\ seccall.d = <<[size |-> 3,
                      key |-> [i \in 0..2 |-> IF i = 0 THEN <<<<"s">>>>
                                              ELSE IF i = 1 THEN <<<<"s",":","k">>>>
                                              ELSE <<<<"t">>>>]]>>
    /\ seccall.n = 1
    /\ seccall.name = <<<<"t">>>>

\* the turns of the loop that classified their line as a syntax error
ErrorTurns == {t \in 1..Len(trace) : trace[t].did = "LINE_ERROR"}

\* C25: iniparser_load returns NULL, the dictionary built so far deleted,
\* whenever at least one line of the file was classified LINE_ERROR,
\* whatever valid section or key=value lines come before or after it.
C25_ErrorFailsLoad ==
    (loaded = "returned" /\ ErrorTurns # {}) => dict = <<>>

\* C26: in iniparser_load every physical line is classified on its own:
\* when a physical line is appended the accumulator is empty unless the line
\* before it ended in a multi-line continuation; what an empty or a
\* one-character line held is never put before the next line.
C26_LineOnItsOwn ==
    \A t \in 1..Len(trace) :
        trace[t].before # <<>> => (t > 1 /\ trace[t - 1].did = "multi")

(***************************************************************************)
(* Properties of the query execution coordinator.                          *)
(***************************************************************************)
QCalls == 1..Len(qhist)

ExecuteOps == {"execute_query", "execute_paged_query", "execute_operation_query"}

MutatorOps == {"top", "key", "skip", "filter", "select", "expand", "expand_path", "orderby"}

\* the call found both the executor and the builder
WasConfigured(c) == c.executor /\ c.builder # <<>>

\* the requests the calls before call k handed to the executor
RECURSIVE SubmittedBefore(_)
SubmittedBefore(k) == IF k <= 1 THEN 0 ELSE qhist[k - 1].submits + SubmittedBefore(k - 1)

\* call k handed the executor exactly one request, r, and returned its task
SubmitsOne(k, r) ==
    /\ qhist[k].submits = 1
    /\ qhist[k].req = SubmittedBefore(k) + 1
    /\ qhist[k].req \in 1..Len(submitted)
    /\ submitted[qhist[k].req] = r
    /\ Len(outcome) = Len(submitted)

\* C12: with executor and builder configured, a call of execute() hands the
\* executor exactly one request, whose expression is what the builder renders
\* from its state at the moment of the call, and the result of the task the
\* call returned is the executor's result for that request.
C12_ExecuteSubmitsRender ==
    \A k \in QCalls :
        (qhist[k].op = "execute_query" /\ WasConfigured(qhist[k])) =>
            /\ SubmitsOne(k, [kind |-> "query",
                              text |-> builder_get_query_expression(qhist[k].builder[1]),
                              params |-> <<>>, is_function |-> FALSE])
            /\ task_result(qhist[k].req) = outcome[qhist[k].req]

\* top(10) and then execute(): the request asks for People?$top=10, the
\* executor has answered it, and the caller's task holds that answer
C12_Witness ==
    \E k \in QCalls :
        /\ qhist[k].op = "execute_query"
        /\ qhist[k].req # 0
        /\ submitted[qhist[k].req].text =
               <<"P","e","o","p","l","e","?","$","t","o","p","=","1","0">>
        /\ outcome[qhist[k].req] = "ok"
        /\ task_result(qhist[k].req) = "ok"

\* C13: execute_paged(token) hands the executor the token as it was supplied
\* and nothing of the builder: the builder is not asked to render, its
\* QueryState and the token are as before the call, and two calls with the
\* same token submit the same string whatever clauses the builder holds.
C13_PagedBypassesBuilder ==
    \A k \in QCalls :
        qhist[k].op = "execute_paged_query" =>
            /\ qhist[k].after = qhist[k].builder
            /\ qhist[k].token = qhist[k].str
            /\ ~qhist[k].rendered
            /\ WasConfigured(qhist[k]) =>
                   SubmitsOne(k, [kind |-> "paged", text |-> qhist[k].str,
                                  params |-> <<>>, is_function |-> FALSE])
            /\ \A j \in QCalls :
                   (/\ qhist[j].op = "execute_paged_query"
                    /\ qhist[j].str = qhist[k].str
                    /\ qhist[j].req # 0
                    /\ qhist[k].req # 0)
                   => submitted[qhist[j].req].text = submitted[qhist[k].req].text

\* a paged call on a builder that holds a clause: the token went out alone
C13_Witness ==
    \E k \in QCalls :
        /\ qhist[k].op = "execute_paged_query"
        /\ qhist[k].builder # <<>>
        /\ qhist[k].builder[1].top = <<10>>
        /\ qhist[k].req # 0
        /\ submitted[qhist[k].req].text = Token
        /\ qhist[k].after = qhist[k].builder

\* C14: with executor and builder configured, execute_operation(parameters,
\* is_function) hands the executor exactly one request: its bound path is the
\* builder's rendering of its current state, its parameters are the supplied
\* list, same elements in the same order, and its flag is is_function.
C14_OperationRequest ==
    \A k \in QCalls :
        (qhist[k].op = "execute_operation_query" /\ WasConfigured(qhist[k])) =>
            SubmitsOne(k, [kind |-> "operation",
                           text |-> builder_get_query_expression(qhist[k].builder[1]),
                           params |-> qhist[k].params,
                           is_function |-> qhist[k].is_function])

\* an action bound to People/1 with the parameters p, q
C14_Witness ==
    \E k \in QCalls :
        /\ qhist[k].op = "execute_operation_query"
        /\ ~qhist[k].is_function
        /\ qhist[k].req # 0
        /\ submitted[qhist[k].req] =
               [kind |-> "operation", text |-> <<"P","e","o","p","l","e","/","1">>,
                params |-> <<"p","q">>, is_function |-> FALSE]

\* C15: a call of execute(), execute_paged() or execute_operation() that finds
\* the executor or the builder absent hands the executor nothing and returns
\* a task that holds the default result already, no failure; with the builder
\* absent get_query_expression() returns the empty string and every mutator
\* changes nothing and returns the coordinator's own handle.
C15_AbsentCollaborator ==
    \A k \in QCalls :
        /\ (qhist[k].op \in ExecuteOps /\ ~WasConfigured(qhist[k])) =>
               /\ qhist[k].submits = 0
               /\ qhist[k].req = 0
               /\ task_result(qhist[k].req) = DefaultResult
               /\ qhist[k].after = qhist[k].builder
               /\ Len(submitted) = SubmittedBefore(Len(qhist) + 1)
        /\ (qhist[k].op = "get_query_expression" /\ qhist[k].builder = <<>>) =>
               qhist[k].expr = <<>> /\ qhist[k].after = <<>>
        /\ (qhist[k].op \in MutatorOps /\ qhist[k].builder = <<>>) =>
               /\ qhist[k].after = <<>>
               /\ qhist[k].handle = This
               /\ qhist[k].submits = 0

\* set_query_builder(null), then a mutator that did nothing and an execute call
\* that returned the default result
C15_Witness ==
    /\ Len(qhist) = 3
    /\ qhist[1].op = "set_query_builder"
    /\ qhist[2].op \in MutatorOps
    /\ qhist[2].after = <<>>
    /\ qhist[3].op \in ExecuteOps
    /\ qhist[3].executor
    /\ qhist[3].req = 0
    /\ submitted = <<>>

Unmutated(j, k) ==
    \A i \in j..k : qhist[i].op \in ExecuteOps \cup {"get_query_expression"}

\* C17: get_query_expression and the three execute calls leave the QueryState
\* as they found it, and two renderings with no mutator call in between,
\* whatever the number of such calls between them, yield identical strings.
C17_RenderPure ==
    \A k \in QCalls :
        /\ qhist[k].op \in ExecuteOps \cup {"get_query_expression"} =>
               qhist[k].after = qhist[k].builder
        /\ \A j \in 1..(k - 1) :
               (/\ qhist[j].op = "get_query_expression"
                /\ qhist[k].op = "get_query_expression"
                /\ Unmutated(j, k))
               => qhist[j].expr = qhist[k].expr

\* a rendering, an execute call that handed the executor a request, and a
\* second rendering, equal to the first
C17_Witness ==
    /\ Len(qhist) >= 3
    /\ qhist[Len(qhist) - 2].op = "get_query_expression"
    /\ qhist[Len(qhist) - 1].op \in ExecuteOps
    /\ qhist[Len(qhist) - 1].req # 0
    /\ qhist[Len(qhist)].op = "get_query_expression"
    /\ qhist[Len(qhist)].expr = qhist[Len(qhist) - 2].expr
    /\ qhist[Len(qhist)].expr # <<>>

(***************************************************************************)
(* Properties of the rendered query string.                                *)
(***************************************************************************)
\* where pat occurs in text
Occ(pat, text) ==
    {i \in 1..(Len(text) - Len(pat) + 1) : SubSeq(text, i, i + Len(pat) - 1) = pat}

\* the pieces the character ch cuts text into, scanning from position i with
\* the current piece begun at from
RECURSIVE PiecesFrom(_, _, _, _)
PiecesFrom(text, ch, i, from) ==
    IF i > Len(text) THEN <<SubSeq(text, from, Len(text))>>
    ELSE IF text[i] = ch
         THEN <<SubSeq(text, from, i - 1)>> \o PiecesFrom(text, ch, i + 1, i + 1)
         ELSE PiecesFrom(text, ch, i + 1, from)

Pieces(text, ch) == PiecesFrom(text, ch, 1, 1)

IsPrefix(p, text) == Len(p) <= Len(text) /\ SubSeq(text, 1, Len(p)) = p

\* the part of a rendered string before its first question mark, and the
\* clauses behind it, which ampersands separate
PathOf(text) == Pieces(text, "?")[1]

QueryOf(text) ==
    IF Len(Pieces(text, "?")) = 1 THEN <<>>
    ELSE Pieces(SubSeq(text, Len(PathOf(text)) + 2, Len(text)), "&")

\* the values the clauses cl give the option: what stands behind the option's
\* name in each clause that begins with it
ValueOf(option, cl) ==
    LET with == SelectSeq(cl, LAMBDA c : IsPrefix(option, c))
    IN  [i \in 1..Len(with) |-> SubSeq(with[i], Len(option) + 1, Len(with[i]))]

OptionOrder ==
    <<FilterOption, SelectOption, ExpandOption, OrderbyOption, TopOption, SkipOption>>

\* the clause of b that the i-th option renders
ClauseOf(b, i) ==
    CASE i = 1 -> b.filter
      [] i = 2 -> b.select
      [] i = 3 -> b.expand
      [] i = 4 -> b.orderby
      [] i = 5 -> b.top
      [] i = 6 -> b.skip

PresentOptions(b) == {i \in 1..6 : ClauseOf(b, i) # <<>>}

\* the clause a mutator sets
FieldOf(op) ==
    CASE op = "top" -> "top"
      [] op = "key" -> "key"
      [] op = "skip" -> "skip"
      [] op = "filter" -> "filter"
      [] op = "select" -> "select"
      [] op \in {"expand", "expand_path"} -> "expand"
      [] op = "orderby" -> "orderby"

\* the builder's mutator that the coordinator's mutator call c passes on to
ApplyTo(b, c) ==
    CASE c.op = "top" -> builder_top(b, c.count)
      [] c.op = "key" -> builder_key(b, c.str)
      [] c.op = "skip" -> builder_skip(b, c.count)
      [] c.op = "filter" -> builder_filter(b, c.str)
      [] c.op = "select" -> builder_select(b, c.str)
      [] c.op \in {"expand", "expand_path"} -> builder_expand(b, c.str)
      [] c.op = "orderby" -> builder_orderby(b, c.str)

\* the mutator calls made so far, in call order
MutatorCalls == SelectSeq(qhist, LAMBDA c : c.op \in MutatorOps)

\* b after the calls cs[order[1]], ..., cs[order[n]]
RECURSIVE ApplyAll(_, _, _, _)
ApplyAll(b, cs, order, n) ==
    IF n = 0 THEN b ELSE ApplyTo(ApplyAll(b, cs, order, n - 1), cs[order[n]])

DistinctClauses(cs) ==
    \A i, j \in 1..Len(cs) : i # j => FieldOf(cs[i].op) # FieldOf(cs[j].op)

\* the options a clause begins with
OptionsOf(clause) == {i \in 1..6 : IsPrefix(OptionOrder[i], clause)}

\* r has the form root[/key-segment][?clause&clause...] for the QueryState b
RenderedForm(b, r) ==
    \A cl \in {QueryOf(r)}, present \in {PresentOptions(b)} :
        /\ PathOf(r) = b.root \o (IF b.key = <<>> THEN <<>> ELSE Slash \o b.key[1])
        /\ Len(Pieces(r, "?")) = IF present = {} THEN 1 ELSE 2
        /\ Len(cl) = Cardinality(present)
        /\ \A k \in 1..Len(cl) :
               /\ Cardinality(OptionsOf(cl[k])) = 1
               /\ OptionsOf(cl[k]) \subseteq present
               /\ b.key # <<>> => Occ(b.key[1], cl[k]) = {}
               /\ k > 1 => \A i \in OptionsOf(cl[k - 1]), j \in OptionsOf(cl[k]) : i < j

\* the calls cs, applied to a new builder in any order, render r
AnyOrderRenders(cs, r) ==
    \A order \in Permutations(1..Len(cs)) :
        builder_get_query_expression(ApplyAll(NewBuilder(Root), cs, order, Len(cs))) = r

\* C18: the rendering of any QueryState has the form root[/key-segment]?clause1&clause2...,
\* the clauses that are present in the fixed order $filter, $select, $expand,
\* $orderby, $top, $skip, the key in the path and never in the query string;
\* and the same mutator calls on distinct clauses, made in any other order,
\* render the same string.
C18_RenderForm ==
    m_query_builder # <<>> =>
        \A r \in {builder_get_query_expression(m_query_builder[1])}, cs \in {MutatorCalls} :
            /\ RenderedForm(m_query_builder[1], r)
            /\ DistinctClauses(cs) => AnyOrderRenders(cs, r)

\* top, filter and key, called in that order, render People/'k'?$filter=b&$top=5
C18_Witness ==
    /\ Len(qhist) = 3
    /\ qhist[1].op = "top"
    /\ qhist[2].op = "filter"
    /\ qhist[3].op = "key"
    /\ m_query_builder # <<>>
    /\ builder_get_query_expression(m_query_builder[1]) =
           <<"P","e","o","p","l","e","/","'","k","'","?","$","f","i","l","t","e","r","=","b",
             "&","$","t","o","p","=","5">>

\* the arguments of the calls of cs whose mutator sets the clause field
ArgsOf(cs, field) ==
    LET of == SelectSeq(cs, LAMBDA c : FieldOf(c.op) = field)
    IN  [i \in 1..Len(of) |-> IF field \in {"top", "skip"} THEN IntText(of[i].count)
                              ELSE of[i].str]

\* the last element only, if there is one
LastOnly(seq) == IF seq = <<>> THEN <<>> ELSE <<seq[Len(seq)]>>

\* C19: after any sequence of mutator calls the render gives top, skip,
\* filter, orderby and the key the value of the latest call of that mutator
\* and no earlier one, and gives $select and $expand every value passed, in
\* call order; a mutator call leaves every clause but its own as it was.
C19_OverwriteAndAccumulate ==
    /\ m_query_builder # <<>> =>
           \A r \in {builder_get_query_expression(m_query_builder[1])}, cs \in {MutatorCalls} :
               \A q \in {QueryOf(r)} :
                   /\ ValueOf(TopOption, q) = LastOnly(ArgsOf(cs, "top"))
                   /\ ValueOf(SkipOption, q) = LastOnly(ArgsOf(cs, "skip"))
                   /\ ValueOf(FilterOption, q) = LastOnly(ArgsOf(cs, "filter"))
                   /\ ValueOf(OrderbyOption, q) = LastOnly(ArgsOf(cs, "orderby"))
                   /\ PathOf(r) = Root \o (IF ArgsOf(cs, "key") = <<>> THEN <<>>
                                           ELSE Slash \o LastOnly(ArgsOf(cs, "key"))[1])
                   /\ ValueOf(SelectOption, q) =
                          IF ArgsOf(cs, "select") = <<>> THEN <<>>
                          ELSE <<Join(ArgsOf(cs, "select"), Comma)>>
                   /\ ValueOf(ExpandOption, q) =
                          IF ArgsOf(cs, "expand") = <<>> THEN <<>>
                          ELSE <<Join(ArgsOf(cs, "expand"), Comma)>>
    /\ \A k \in QCalls :
           (qhist[k].op \in MutatorOps /\ qhist[k].builder # <<>>) =>
               \A field \in DOMAIN qhist[k].builder[1] :
                   field # FieldOf(qhist[k].op) =>
                       qhist[k].after[1][field] = qhist[k].builder[1][field]

\* select(b), top(10), select(a): both selected values in call order, the top
\* clause untouched by the second select
C19_Witness ==
    /\ Len(qhist) = 3
    /\ qhist[1].op = "select"
    /\ qhist[2].op = "top"
    /\ qhist[3].op = "select"
    /\ m_query_builder # <<>>
    /\ builder_get_query_expression(m_query_builder[1]) =
           <<"P","e","o","p","l","e","?","$","s","e","l","e","c","t","=","b",",","a",
             "&","$","t","o","p","=","1","0">>

====
